---- MODULE Spec2Model ----
(***************************************************************************)
(* A model of the ZyraCSS result caches and cache-key memoization:         *)
(*   - LRUCache (core/cache/index.js): a capacity-bounded map with TTL     *)
(*     and an insertion-ordered access map used for LRU eviction;          *)
(*   - MemoizedKeyGenerator (core/cache/keyMemoization.js): the memoizer   *)
(*     of cache keys with least-frequently-used batch eviction;            *)
(*   - ZyraCacheSystem (core/cache/index.js): three LRUCache tiers, the    *)
(*     optimize() sweep and its recurring timer, and withParseCache.       *)
(* Strings the code inspects character by character are sequences of       *)
(* one-character strings; opaque strings are TLA+ strings.                 *)
(***************************************************************************)
EXTENDS Integers, Sequences, FiniteSets, TLC

VARIABLES
    now,        \* Date.now(), in clock ticks
    lru,        \* one LRUCache instance: [maxSize, ttl, cache, accessOrder]
    lruOp,      \* the last LRUCache call: [name, outcome]
    lruRet,     \* what the last LRUCache call returned
    lastSet,    \* history: per stored key, the time and value of its last set
    recency,    \* history: stored keys in the order of their last set or successful get
    keygen,     \* globalKeyGenerator, the MemoizedKeyGenerator instance
    keyOp,      \* the last key request: [name, evicted]
    keyRet,     \* the key the last key request returned
    lastGen,    \* history: the arguments of the last getGenerationKey call
    zcs,        \* globalCache, the ZyraCacheSystem instance
    timers,     \* the interval timers the runtime holds
    sysOp,      \* the last thing the cache system did: [name, ...]
    sysRet,     \* what the last cache system call returned
    cleanupCalled, \* history: cleanup() has been called
    coldParse,  \* history: per class name, what the last cold parseClass returned
    fnCall,     \* the last call of a function of the pipeline: [name, arguments]
    fnRet,      \* what that call returned
    engine      \* the state a createEngine() closure holds, Null before createEngine

lruVars == <<lru, lruOp, lruRet, lastSet, recency>>
keyVars == <<keygen, keyOp, keyRet, lastGen>>
sysVars == <<zcs, timers, sysOp, sysRet, cleanupCalled, coldParse>>
fnVars == <<fnCall, fnRet>>
vars == <<now, lruVars, keyVars, sysVars, fnVars, engine>>

(***************************************************************************)
(* Bounds of the model.                                                    *)
(***************************************************************************)
MaxTime == 2           \* the clock runs from 0 to MaxTime
LruMaxSize == 2        \* maxSize of the stand-alone LRUCache
LruTtl == 1            \* ttl of the stand-alone LRUCache, in ticks
MaxAccessCount == 2    \* cap on an entry's accessCount
KeyMaxSize == 2        \* maxSize of the MemoizedKeyGenerator
KeyEvictionSize == 1   \* evictionSize of the MemoizedKeyGenerator
MaxAccesses == 5       \* key requests stop once accessCounter reaches this
OptMaxAccesses == 21   \* long runs of key requests stop once accessCounter reaches this
SysMaxTime == 2        \* the cache system's clock runs from 0 to SysMaxTime
SysMaxAccesses == 9    \* cache system calls stop once accessCounter would pass this
ThreatMaxCalls == 2     \* parseClass is called on threats at most this often in a behaviour
ApiMaxCalls == 2
MaxInputLength == 3      \* characters of an input given to a safe regex operation
SweepMaxTime == 5       \* the clock of the sweep runs from 0 to SweepMaxTime quarters of an hour
GenKeyMaxRequests == 2   \* generation keys requested in one behaviour
EngineMaxClasses == 1    \* maxClasses of the engine created with an explicit limit
EngineMaxAccesses == 4   \* key requests the engine's getCSS calls make in one behaviour
EngineMaxUpdates == 3    \* an engine's updateCount stays below this number
MaxHexLength == 6        \* hex digits of a colour given to normalizeCSSValue
MaxRules == 3            \* rules in one list given to groupIdenticalRules        \* the entry points are called at most this often in a behaviour

\* Constants of the program.
MAX_PARSE_CACHE == 5000
MAX_GENERATION_CACHE == 1000
MAX_RULE_CACHE == 10000
TTL_THIRTY_MINUTES == 1800000
TTL_DEFAULT == 3600000
GlobalKeyMaxSize == 10000
GlobalKeyEvictionSize == 2000
MAX_CLASS_LENGTH == 500
DefaultMaxLength == 10000
DetectMaxLength == 50000
RepetitionLength == 20
SafeInputMaxLength == 10000
MIN_ZERO == 0
RGB_MIN == 0
RGB_MAX == 255
HSL_PERCENTAGE_MIN == 0
HSL_PERCENTAGE_MAX == 100
HSL_HUE_MIN == 0
HSL_HUE_MAX == 360
ALPHA_MIN == 0
ALPHA_MAX == 1

(***************************************************************************)
(* JavaScript values.  A string is a sequence of one-character strings     *)
(* wrapped by JSStr; values of different types are records with different  *)
(* fields, so that they compare unequal.                                   *)
(***************************************************************************)
Undefined == [undefined |-> TRUE]
Null == [null |-> TRUE]
JSBool(b) == [bool |-> b]
JSStr(chars) == [str |-> chars]

\* Truthiness: undefined, null, false and the empty string are falsy.
Truthy(v) == v \notin {Undefined, Null, JSBool(FALSE), JSStr(<<>>), [num |-> 0]}

Keys == {JSStr(<<>>), JSStr(<<"a">>), JSStr(<<"b">>)}  \* cache keys; the first is ""
Values == {[obj |-> "v1"]}                             \* cached values (objects, hence truthy)
Times == 0..MaxTime

Min(a, b) == IF a <= b THEN a ELSE b

\* Map.prototype.delete / set on a map kept as a function.
MapDelete(f, k) == [x \in (DOMAIN f) \ {k} |-> f[x]]
MapSet(f, k, v) == [x \in (DOMAIN f) \cup {k} |-> IF x = k THEN v ELSE f[x]]
EmptyMap == [x \in {} |-> Null]

\* An insertion-ordered Map kept as a sequence of [key, val] records.
OMapKeys(m) == {m[i].key : i \in 1..Len(m)}
OMapDelete(m, k) == SelectSeq(m, LAMBDA e : e.key # k)
OMapSet(m, k, v) ==
    IF k \in OMapKeys(m)
    THEN [i \in 1..Len(m) |-> IF m[i].key = k THEN [key |-> k, val |-> v] ELSE m[i]]
    ELSE Append(m, [key |-> k, val |-> v])
OMapHas(m, k) == k \in OMapKeys(m)
OMapGet(m, k) == m[CHOOSE i \in 1..Len(m) : m[i].key = k].val

(***************************************************************************)
(* LRUCache (core/cache/index.js).  The keyCache field is never written    *)
(* by any method, so it stays empty and evictLRU's clean-up loop over it   *)
(* does nothing; it is left out.                                           *)
(***************************************************************************)
LRUCache_new(maxSize, ttl) ==
    [maxSize |-> maxSize, ttl |-> ttl, cache |-> EmptyMap, accessOrder |-> <<>>]

LRUCache_size(t) == Cardinality(DOMAIN t.cache)

LRUCache_has(t, key) == key \in DOMAIN t.cache

LRUCache_delete(t, key) ==
    [t EXCEPT !.cache = MapDelete(@, key), !.accessOrder = OMapDelete(@, key)]

LRUCache_clear(t) == [t EXCEPT !.cache = EmptyMap, !.accessOrder = <<>>]

LRUCache_evictLRU(t) ==
    IF Len(t.accessOrder) = 0 THEN t
    ELSE LET oldestKey == t.accessOrder[1].key
         IN  IF Truthy(oldestKey) THEN LRUCache_delete(t, oldestKey) ELSE t

LRUCache_set(t, key, value, time) ==
    LET t1 == IF key \in DOMAIN t.cache THEN LRUCache_delete(t, key) ELSE t
        t2 == IF LRUCache_size(t1) >= t1.maxSize THEN LRUCache_evictLRU(t1) ELSE t1
    IN  [t2 EXCEPT
           !.cache = MapSet(@, key, [value |-> value, timestamp |-> time, accessCount |-> 1]),
           !.accessOrder = OMapSet(@, key, time)]

\* LRUCache_get with the TTL test off by one (>= for >).
LRUCache_getExpiresEarly(t, key, time) ==
    IF key \notin DOMAIN t.cache THEN <<t, Null>>
    ELSE LET entry == t.cache[key]
         IN  IF time - entry.timestamp >= t.ttl
             THEN <<[t EXCEPT !.cache = MapDelete(@, key),
                              !.accessOrder = OMapDelete(@, key)], Null>>
             ELSE <<[t EXCEPT !.cache[key].accessCount = @ + 1,
                              !.accessOrder = OMapSet(OMapDelete(@, key), key, time)],
                    entry.value>>

\* LRUCache_get that also bumps the entry's timestamp on a hit (a sliding TTL).
LRUCache_getBumpsTimestamp(t, key, time) ==
    IF key \notin DOMAIN t.cache THEN <<t, Null>>
    ELSE LET entry == t.cache[key]
         IN  IF time - entry.timestamp > t.ttl
             THEN <<[t EXCEPT !.cache = MapDelete(@, key),
                              !.accessOrder = OMapDelete(@, key)], Null>>
             ELSE <<[t EXCEPT !.cache[key].accessCount = @ + 1,
                              !.cache[key].timestamp = time,
                              !.accessOrder = OMapSet(OMapDelete(@, key), key, time)],
                    entry.value>>

\* get returns the pair <<cache after the call, returned value>>.
LRUCache_get(t, key, time) ==
    IF key \notin DOMAIN t.cache THEN <<t, Null>>
    ELSE LET entry == t.cache[key]
         IN  IF time - entry.timestamp > t.ttl
             THEN <<LRUCache_delete(t, key), Null>>
             ELSE <<[t EXCEPT !.cache[key].accessCount = @ + 1,
                              !.accessOrder = OMapSet(OMapDelete(@, key), key, time)],
                    entry.value>>

\* removeExpired that also deletes an entry stamped exactly at the cutoff.
LRUCache_removeExpiredInclusive(t, cutoffTime) ==
    LET toDelete == {k \in DOMAIN t.cache : t.cache[k].timestamp <= cutoffTime}
    IN  [t EXCEPT !.cache = [k \in (DOMAIN t.cache) \ toDelete |-> t.cache[k]],
                  !.accessOrder = SelectSeq(@, LAMBDA e : e.key \notin toDelete)]

LRUCache_removeExpired(t, cutoffTime) ==
    LET toDelete == {k \in DOMAIN t.cache : t.cache[k].timestamp < cutoffTime}
    IN  [t EXCEPT !.cache = [k \in (DOMAIN t.cache) \ toDelete |-> t.cache[k]],
                  !.accessOrder = SelectSeq(@, LAMBDA e : e.key \notin toDelete)]

(***************************************************************************)
(* Strings as sequences of characters.                                     *)
(***************************************************************************)
Lit_parse == <<"p", "a", "r", "s", "e">>
Lit_generation == <<"g", "e", "n", "e", "r", "a", "t", "i", "o", "n">>
Lit_rule == <<"r", "u", "l", "e">>
Lit_hash == <<"h", "a", "s", "h">>
Lit_true == <<"t", "r", "u", "e">>
Lit_false == <<"f", "a", "l", "s", "e">>
Lit_null == <<"n", "u", "l", "l">>
Json_minify == <<"{", "\"", "m", "i", "n", "i", "f", "y", "\"", ":">>
Json_groupSelectors == <<",", "\"", "g", "r", "o", "u", "p", "S", "e", "l", "e", "c", "t", "o", "r", "s", "\"", ":">>
Json_includeComments == <<",", "\"", "i", "n", "c", "l", "u", "d", "e", "C", "o", "m", "m", "e", "n", "t", "s", "\"", ":">>
Json_important == <<",", "\"", "i", "m", "p", "o", "r", "t", "a", "n", "t", "\"", ":">>
Json_scope == <<",", "\"", "s", "c", "o", "p", "e", "\"", ":">>

\* UTF-16 code units of the characters that occur in compared strings.
CharCode(c) ==
    CASE c = " " -> 32 [] c = "-" -> 45 [] c = "." -> 46 [] c = "1" -> 49
      [] c = "2" -> 50 [] c = ":" -> 58 [] c = "[" -> 91 [] c = "]" -> 93
      [] c = "a" -> 97 [] c = "c" -> 99 [] c = "d" -> 100 [] c = "e" -> 101
      [] c = "g" -> 103 [] c = "i" -> 105 [] c = "l" -> 108 [] c = "m" -> 109
      [] c = "n" -> 110 [] c = "o" -> 111 [] c = "p" -> 112 [] c = "r" -> 114
      [] c = "|" -> 124

\* a < b for strings: by code units, a proper prefix first.
RECURSIVE StrLess(_, _)
StrLess(a, b) ==
    IF b = <<>> THEN FALSE
    ELSE IF a = <<>> THEN TRUE
    ELSE IF Head(a) = Head(b) THEN StrLess(Tail(a), Tail(b))
    ELSE CharCode(Head(a)) < CharCode(Head(b))

\* Array.prototype.sort() with the default comparison, on an array of strings.
RECURSIVE InsertSorted(_, _)
InsertSorted(sorted, x) ==
    IF sorted = <<>> THEN <<x>>
    ELSE IF StrLess(x, Head(sorted)) THEN <<x>> \o sorted
    ELSE <<Head(sorted)>> \o InsertSorted(Tail(sorted), x)

\* A sort() that was left out: the array as given.
ArrayUnsorted(arr) == arr

RECURSIVE ArraySort(_)
ArraySort(arr) ==
    IF arr = <<>> THEN <<>>
    ELSE InsertSorted(ArraySort(SubSeq(arr, 1, Len(arr) - 1)), arr[Len(arr)])

\* Array.prototype.join(sep) on an array of strings.
RECURSIVE ArrayJoin(_, _)
ArrayJoin(arr, sep) ==
    IF arr = <<>> THEN <<>>
    ELSE IF Len(arr) = 1 THEN arr[1]
    ELSE arr[1] \o sep \o ArrayJoin(Tail(arr), sep)

\* String.prototype.split(sep) for a one-character separator.
RECURSIVE StringSplit(_, _)
StringSplit(str, sep) ==
    IF \A i \in 1..Len(str) : str[i] # sep THEN <<str>>
    ELSE LET i == CHOOSE j \in 1..Len(str) :
                      str[j] = sep /\ \A h \in 1..(j - 1) : str[h] # sep
         IN  <<SubSeq(str, 1, i - 1)>> \o StringSplit(SubSeq(str, i + 1, Len(str)), sep)

\* String.prototype.trim(), the white space being the space character.
RECURSIVE StringTrim(_)
StringTrim(str) ==
    IF str = <<>> THEN str
    ELSE IF Head(str) = " " THEN StringTrim(Tail(str))
    ELSE IF str[Len(str)] = " " THEN StringTrim(SubSeq(str, 1, Len(str) - 1))
    ELSE str

(***************************************************************************)
(* MemoizedKeyGenerator (core/cache/keyMemoization.js).  The four key      *)
(* caches are insertion-ordered Maps from a string to the memoized key;    *)
(* accessFrequency maps `${type}:${key}` to a counter.  The stats record   *)
(* is only reported by getStats and is left out.                           *)
(***************************************************************************)
\* createHash("md5").update(input).digest("hex").substring(0, 8): the digest
\* is an opaque block that stands for the 8 hex digits of the input's hash.
Md5Hex8(input) == [md5 |-> input]

\* `parse:${className}`
ParseKeyOf(className) == JSStr(Lit_parse \o <<":">> \o className)
\* `gen:${classesHash}:${optionsHash}`
GenKeyOf(classesHash, optionsHash) == [gen |-> <<classesHash, optionsHash>>]
\* `rule:${selector}:${declarationHash}`
RuleKeyOf(selector, declarationHash) == [rule |-> <<selector, declarationHash>>]

MKG_new(maxSize, evictionSize) ==
    [maxSize |-> maxSize, evictionSize |-> evictionSize,
     parseKeyCache |-> <<>>, generationKeyCache |-> <<>>,
     ruleKeyCache |-> <<>>, hashCache |-> <<>>,
     accessFrequency |-> EmptyMap, accessCounter |-> 0]

KeyTypes == {"parse", "generation", "rule", "hash"}
TypeChars(type) ==
    CASE type = "parse" -> Lit_parse [] type = "generation" -> Lit_generation
      [] type = "rule" -> Lit_rule [] type = "hash" -> Lit_hash

\* The Map a call passes together with its type.
CacheOf(m, type) ==
    CASE type = "parse" -> m.parseKeyCache [] type = "generation" -> m.generationKeyCache
      [] type = "rule" -> m.ruleKeyCache [] type = "hash" -> m.hashCache
WithCache(m, type, c) ==
    CASE type = "parse" -> [m EXCEPT !.parseKeyCache = c]
      [] type = "generation" -> [m EXCEPT !.generationKeyCache = c]
      [] type = "rule" -> [m EXCEPT !.ruleKeyCache = c]
      [] type = "hash" -> [m EXCEPT !.hashCache = c]

AccessKey(type, key) == TypeChars(type) \o <<":">> \o key
FrequencyOf(m, accessKey) ==
    IF accessKey \in DOMAIN m.accessFrequency THEN m.accessFrequency[accessKey] ELSE 0

\* trackAccess that raises accessCounter and leaves the frequency table alone.
MKG_trackAccessCountingOnly(m, key, type) ==
    [m EXCEPT !.accessCounter = @ + 1]

MKG_trackAccess(m, key, type) ==
    LET accessKey == AccessKey(type, key)
        current == FrequencyOf(m, accessKey)
    IN  [m EXCEPT !.accessCounter = @ + 1,
                  !.accessFrequency = MapSet(@, accessKey, current + 1)]

\* entries.sort((a, b) => freqA - freqB): a stable sort by ascending frequency.
RECURSIVE InsertByFrequency(_, _, _)
InsertByFrequency(sorted, x, freq) ==
    IF sorted = <<>> THEN <<x>>
    ELSE IF freq[x] < freq[Head(sorted)] THEN <<x>> \o sorted
    ELSE <<Head(sorted)>> \o InsertByFrequency(Tail(sorted), x, freq)

RECURSIVE SortByFrequency(_, _)
SortByFrequency(entries, freq) ==
    IF entries = <<>> THEN <<>>
    ELSE InsertByFrequency(SortByFrequency(SubSeq(entries, 1, Len(entries) - 1), freq),
                           entries[Len(entries)], freq)

\* evictLeastUsed without the sort: the oldest insertions go first.
MKG_evictOldestInserted(m, type) ==
    LET cache == CacheOf(m, type)
        toRemove == Min(m.evictionSize, Len(cache))
        removed == {cache[i].key : i \in 1..toRemove}
        m1 == WithCache(m, type, SelectSeq(cache, LAMBDA e : e.key \notin removed))
    IN  [m1 EXCEPT !.accessFrequency =
            [ak \in (DOMAIN @) \ {AccessKey(type, k) : k \in removed} |-> @[ak]]]

MKG_evictLeastUsed(m, type) ==
    LET cache == CacheOf(m, type)
        entries == [i \in 1..Len(cache) |-> cache[i].key]
        freq == [k \in OMapKeys(cache) |-> FrequencyOf(m, AccessKey(type, k))]
        sorted == SortByFrequency(entries, freq)
        toRemove == Min(m.evictionSize, Len(entries))
        removed == {sorted[i] : i \in 1..toRemove}
        m1 == WithCache(m, type, SelectSeq(cache, LAMBDA e : e.key \notin removed))
    IN  [m1 EXCEPT !.accessFrequency =
            [ak \in (DOMAIN @) \ {AccessKey(type, k) : k \in removed} |-> @[ak]]]

\* setWithEviction with the capacity test off by one (> for >=).
MKG_setWithLateEviction(m, type, key, value) ==
    LET m1 == IF Len(CacheOf(m, type)) > m.maxSize THEN MKG_evictLeastUsed(m, type) ELSE m
        m2 == WithCache(m1, type, OMapSet(CacheOf(m1, type), key, value))
    IN  MKG_trackAccess(m2, key, type)

MKG_setWithEviction(m, type, key, value) ==
    LET m1 == IF Len(CacheOf(m, type)) >= m.maxSize THEN MKG_evictLeastUsed(m, type) ELSE m
        m2 == WithCache(m1, type, OMapSet(CacheOf(m1, type), key, value))
    IN  MKG_trackAccess(m2, key, type)

\* Each key request returns the pair <<generator after the call, key>>.
MKG_getMemoizedHash(m, input) ==
    IF OMapHas(m.hashCache, input)
    THEN <<MKG_trackAccess(m, input, "hash"), OMapGet(m.hashCache, input)>>
    ELSE LET hash == Md5Hex8(input)
         IN  <<MKG_setWithEviction(m, "hash", input, hash), hash>>

MKG_getParseKey(m, className) ==
    IF OMapHas(m.parseKeyCache, className)
    THEN <<MKG_trackAccess(m, className, "parse"), OMapGet(m.parseKeyCache, className)>>
    ELSE LET key == ParseKeyOf(className)
         IN  <<MKG_setWithEviction(m, "parse", className, key), key>>

\* Boolean(x)
ToBoolean(v) == JSBool(Truthy(v))

MKG_normalizeOptions(options) ==
    [minify |-> ToBoolean(options.minify),
     groupSelectors |-> JSBool(options.groupSelectors # JSBool(FALSE)),
     includeComments |-> ToBoolean(options.includeComments),
     important |-> ToBoolean(options.important),
     scope |-> IF Truthy(options.scope) THEN options.scope ELSE Null]

\* JSON.stringify of a boolean, null or string value; the strings of the
\* model hold no character that JSON escapes.
JsonValue(v) ==
    IF v = Null THEN Lit_null
    ELSE IF v = JSBool(TRUE) THEN Lit_true
    ELSE IF v = JSBool(FALSE) THEN Lit_false
    ELSE <<"\"">> \o v.str \o <<"\"">>

\* JSON.stringify(normalizedOptions): the fields in the order normalizeOptions
\* writes them.
JsonStringifyOptions(n) ==
    Json_minify \o JsonValue(n.minify)
      \o Json_groupSelectors \o JsonValue(n.groupSelectors)
      \o Json_includeComments \o JsonValue(n.includeComments)
      \o Json_important \o JsonValue(n.important)
      \o Json_scope \o JsonValue(n.scope) \o <<"}">>

MKG_getGenerationKey(m, classArray, options) ==
    LET sortedClasses == ArraySort(classArray)
        normalizedOptions == MKG_normalizeOptions(options)
        joined == ArrayJoin(sortedClasses, <<"|">>)
        json == JsonStringifyOptions(normalizedOptions)
        inputKey == joined \o <<":", ":">> \o json
    IN  IF OMapHas(m.generationKeyCache, inputKey)
        THEN <<MKG_trackAccess(m, inputKey, "generation"),
               OMapGet(m.generationKeyCache, inputKey)>>
        ELSE LET h1 == MKG_getMemoizedHash(m, joined)
                 h2 == MKG_getMemoizedHash(h1[1], json)
                 key == GenKeyOf(h1[2], h2[2])
             IN  <<MKG_setWithEviction(h2[1], "generation", inputKey, key), key>>

\* A declarations object is the sequence of its [prop, val] entries in
\* insertion order; localeCompare on property names of lower-case letters
\* is the comparison by code units.
RECURSIVE InsertEntry(_, _)
InsertEntry(sorted, e) ==
    IF sorted = <<>> THEN <<e>>
    ELSE IF StrLess(e.prop, Head(sorted).prop) THEN <<e>> \o sorted
    ELSE <<Head(sorted)>> \o InsertEntry(Tail(sorted), e)

RECURSIVE SortEntries(_)
SortEntries(entries) ==
    IF entries = <<>> THEN <<>>
    ELSE InsertEntry(SortEntries(SubSeq(entries, 1, Len(entries) - 1)), entries[Len(entries)])

MKG_normalizeDeclarations(declarations) ==
    IF "str" \in DOMAIN declarations THEN StringTrim(declarations.str)
    ELSE LET sorted == SortEntries(declarations.entries)
         IN  ArrayJoin([i \in 1..Len(sorted) |-> sorted[i].prop \o <<":">> \o sorted[i].val],
                       <<";">>)

MKG_getRuleKey(m, selector, declarations) ==
    LET normalizedDeclarations == MKG_normalizeDeclarations(declarations)
        inputKey == selector \o <<":", ":">> \o normalizedDeclarations
    IN  IF OMapHas(m.ruleKeyCache, inputKey)
        THEN <<MKG_trackAccess(m, inputKey, "rule"), OMapGet(m.ruleKeyCache, inputKey)>>
        ELSE LET h == MKG_getMemoizedHash(m, normalizedDeclarations)
                 key == RuleKeyOf(selector, h[2])
             IN  <<MKG_setWithEviction(h[1], "rule", inputKey, key), key>>

MKG_clear(m) ==
    [m EXCEPT !.parseKeyCache = <<>>, !.generationKeyCache = <<>>,
              !.ruleKeyCache = <<>>, !.hashCache = <<>>,
              !.accessFrequency = EmptyMap, !.accessCounter = 0]

\* frequency < Math.max(1, accessCounter / (accessFrequency.size * 10)),
\* in integers; the loop body runs only when the size is positive.
BelowThreshold(frequency, accessCounter, size) ==
    frequency < 1 \/ frequency * size * 10 < accessCounter

\* The type and key that optimize() reads back from an accessKey.
AccessKeyType(accessKey) == StringSplit(accessKey, ":")[1]
AccessKeyKey(accessKey) == ArrayJoin(Tail(StringSplit(accessKey, ":")), <<":">>)

\* optimize() that also removes the keys whose frequency equals the threshold.
MKG_optimizeAtThreshold(m) ==
    LET size == Cardinality(DOMAIN m.accessFrequency)
        low == {ak \in DOMAIN m.accessFrequency :
                   m.accessFrequency[ak] * size * 10 <= m.accessCounter}
        drop(cache, type) ==
            SelectSeq(cache, LAMBDA e :
                ~\E ak \in low : AccessKeyType(ak) = TypeChars(type) /\ AccessKeyKey(ak) = e.key)
    IN  [m EXCEPT !.parseKeyCache = drop(@, "parse"),
                  !.generationKeyCache = drop(@, "generation"),
                  !.ruleKeyCache = drop(@, "rule"),
                  !.hashCache = drop(@, "hash"),
                  !.accessFrequency = [ak \in (DOMAIN @) \ low |-> @[ak]]]

MKG_optimize(m) ==
    LET size == Cardinality(DOMAIN m.accessFrequency)
        low == {ak \in DOMAIN m.accessFrequency :
                   BelowThreshold(m.accessFrequency[ak], m.accessCounter, size)}
        drop(cache, type) ==
            SelectSeq(cache, LAMBDA e :
                ~\E ak \in low : AccessKeyType(ak) = TypeChars(type) /\ AccessKeyKey(ak) = e.key)
    IN  [m EXCEPT !.parseKeyCache = drop(@, "parse"),
                  !.generationKeyCache = drop(@, "generation"),
                  !.ruleKeyCache = drop(@, "rule"),
                  !.hashCache = drop(@, "hash"),
                  !.accessFrequency = [ak \in (DOMAIN @) \ low |-> @[ak]]]

(***************************************************************************)
(* The key generator under arbitrary key requests.                         *)
(***************************************************************************)
Class_m1 == <<"m", "-", "[", "1", "]">>
Class_p1 == <<"p", "-", "[", "1", "]">>
Class_p12 == <<"p", "-", "[", "1", "2", "]">>
Scope_app == <<".", "a", "p", "p">>
Sel_a == <<".", "a">>
Decl_colorRed == <<"c", "o", "l", "o", "r", ":", "r", "e", "d">>
Decl_padded == <<" ", "c", "o", "l", "o", "r", ":", "r", "e", "d", " ">>

ClassNames == {Class_m1, Class_p1, Class_p12}

Options(minify, groupSelectors, includeComments, important, scope) ==
    [minify |-> minify, groupSelectors |-> groupSelectors,
     includeComments |-> includeComments, important |-> important, scope |-> scope]

\* The requests the actions draw from.
ClassArrays == {<<Class_p1, Class_p12>>, <<Class_p12, Class_p1>>, <<Class_p1, Class_m1, Class_p12>>}
OptionInputs ==
    {Options(Undefined, Undefined, Undefined, Undefined, Undefined),
     Options(JSBool(FALSE), JSBool(TRUE), Undefined, Undefined, Undefined),
     Options(JSBool(TRUE), Undefined, Undefined, Undefined, JSStr(Scope_app))}
Selectors == {Sel_a}
DeclarationInputs ==
    {[str |-> Decl_padded],
     [entries |-> <<[prop |-> <<"m">>, val |-> <<"1">>], [prop |-> <<"c">>, val |-> <<"2">>]>>]}
HashInputs == {Decl_colorRed}

NoKeyOp == [name |-> "new", evicted |-> {}]

\* What a call removed from the key caches, with the frequency each had.
EvictedBy(m, m2) ==
    UNION {{[type |-> type, key |-> k, frequency |-> FrequencyOf(m, AccessKey(type, k))] :
               k \in OMapKeys(CacheOf(m, type)) \ OMapKeys(CacheOf(m2, type))} :
           type \in KeyTypes}

KeyInit ==
    /\ keygen = MKG_new(KeyMaxSize, KeyEvictionSize)
    /\ keyOp = NoKeyOp
    /\ keyRet = Null
    /\ lastGen = Null

KeyRequest(name, result) ==
    /\ keygen.accessCounter < MaxAccesses
    /\ keygen' = result[1]
    /\ keyRet' = result[2]
    /\ keyOp' = [name |-> name, evicted |-> EvictedBy(keygen, result[1])]

GetParseKey(className) ==
    /\ KeyRequest("getParseKey", MKG_getParseKey(keygen, className))
    /\ UNCHANGED <<now, fnVars, lruVars, engine, lastGen, sysVars>>

GetGenerationKey(classArray, options) ==
    /\ KeyRequest("getGenerationKey", MKG_getGenerationKey(keygen, classArray, options))
    /\ lastGen' = [classArray |-> classArray, options |-> options, key |-> keyRet']
    /\ UNCHANGED <<now, fnVars, lruVars, engine, sysVars>>

GetRuleKey(selector, declarations) ==
    /\ KeyRequest("getRuleKey", MKG_getRuleKey(keygen, selector, declarations))
    /\ UNCHANGED <<now, fnVars, lruVars, engine, lastGen, sysVars>>

GetMemoizedHash(input) ==
    /\ KeyRequest("getMemoizedHash", MKG_getMemoizedHash(keygen, input))
    /\ UNCHANGED <<now, fnVars, lruVars, engine, lastGen, sysVars>>

KeyOptimize ==
    /\ keygen' = MKG_optimize(keygen)
    /\ keyOp' = [name |-> "optimize", evicted |-> {}]
    /\ keyRet' = Null
    /\ UNCHANGED <<now, fnVars, lruVars, engine, lastGen, sysVars>>

KeyClear ==
    /\ keygen' = MKG_clear(keygen)
    /\ keyOp' = [name |-> "clear", evicted |-> {}]
    /\ keyRet' = Null
    /\ UNCHANGED <<now, fnVars, lruVars, engine, lastGen, sysVars>>

KeyNext ==
    \/ \E className \in ClassNames : GetParseKey(className)
    \/ \E classArray \in ClassArrays, options \in OptionInputs :
          GetGenerationKey(classArray, options)
    \/ \E selector \in Selectors, declarations \in DeclarationInputs :
          GetRuleKey(selector, declarations)
    \/ \E input \in HashInputs : GetMemoizedHash(input)
    \/ KeyOptimize
    \/ KeyClear

(***************************************************************************)
(* The key generator under long runs of requests for a few keys, so that   *)
(* the access counter outgrows ten times the number of live keys.          *)
(***************************************************************************)
FrequentRequest(name, result) ==
    /\ keygen.accessCounter < OptMaxAccesses
    /\ keygen' = result[1]
    /\ keyRet' = result[2]
    /\ keyOp' = [name |-> name, evicted |-> EvictedBy(keygen, result[1])]
    /\ UNCHANGED <<now, fnVars, lruVars, engine, lastGen, sysVars>>

FrequentParseKey(className) ==
    FrequentRequest("getParseKey", MKG_getParseKey(keygen, className))

FrequentHash(input) ==
    FrequentRequest("getMemoizedHash", MKG_getMemoizedHash(keygen, input))

\* optimize(), recording the keys the pass removed.
OptimizePass ==
    /\ keygen' = MKG_optimize(keygen)
    /\ keyOp' = [name |-> "optimize", evicted |-> EvictedBy(keygen, keygen')]
    /\ keyRet' = Null
    /\ UNCHANGED <<now, fnVars, lruVars, engine, lastGen, sysVars>>

OptNext ==
    \/ \E className \in ClassNames : FrequentParseKey(className)
    \/ \E input \in HashInputs : FrequentHash(input)
    \/ OptimizePass

(***************************************************************************)
(* The stand-alone LRUCache under arbitrary calls.                         *)
(***************************************************************************)
NoOp == [name |-> "new", outcome |-> Null]
Unset == [time |-> -1, value |-> Null]

\* The histories are kept for the stored keys only.
Stored(t) == DOMAIN t.cache
NoteUse(k) == Append(SelectSeq(recency, LAMBDA x : x # k), k)
KeepStored(h, t) == [x \in Keys |-> IF x \in Stored(t) THEN h[x] ELSE Unset]
KeepStoredSeq(s, t) == SelectSeq(s, LAMBDA x : x \in Stored(t))

LruInit ==
    /\ lru = LRUCache_new(LruMaxSize, LruTtl)
    /\ lruOp = NoOp
    /\ lruRet = Null
    /\ lastSet = [k \in Keys |-> Unset]
    /\ recency = <<>>

Tick ==
    /\ now < MaxTime
    /\ now' = now + 1
    /\ UNCHANGED <<lruVars, engine, keyVars, sysVars, fnVars>>

LruSet(k, v) ==
    /\ lru' = LRUCache_set(lru, k, v, now)
    /\ lruOp' = [name |-> "set", outcome |-> IF k \in Stored(lru) THEN "overwrite"
                             ELSE IF LRUCache_size(lru) >= lru.maxSize THEN "full"
                             ELSE "insert"]
    /\ lruRet' = Null
    /\ lastSet' = KeepStored([lastSet EXCEPT ![k] = [time |-> now, value |-> v]], lru')
    /\ recency' = KeepStoredSeq(NoteUse(k), lru')
    /\ UNCHANGED <<now, fnVars, engine, keyVars, sysVars>>

LruGet(k) ==
    LET hit == k \in Stored(lru) /\ now - lastSet[k].time <= lru.ttl
    IN  /\ hit => lru.cache[k].accessCount < MaxAccessCount
        /\ lru' = LRUCache_get(lru, k, now)[1]
        /\ lruRet' = LRUCache_get(lru, k, now)[2]
        /\ lruOp' = [name |-> "get", outcome |-> IF k \notin Stored(lru) THEN "absent"
                                 ELSE IF hit THEN "live" ELSE "expired"]
        /\ lastSet' = KeepStored(lastSet, lru')
        /\ recency' = KeepStoredSeq(IF lruRet' # Null THEN NoteUse(k) ELSE recency, lru')
        /\ UNCHANGED <<now, fnVars, engine, keyVars, sysVars>>

LruHas(k) ==
    /\ lruRet' = JSBool(LRUCache_has(lru, k))
    /\ lruOp' = [name |-> "has", outcome |-> Null]
    /\ UNCHANGED <<now, fnVars, engine, lru, lastSet, recency, keyVars, sysVars>>

LruDelete(k) ==
    /\ lru' = LRUCache_delete(lru, k)
    /\ lruOp' = [name |-> "delete", outcome |-> Null]
    /\ lruRet' = Null
    /\ lastSet' = KeepStored(lastSet, lru')
    /\ recency' = KeepStoredSeq(recency, lru')
    /\ UNCHANGED <<now, fnVars, engine, keyVars, sysVars>>

LruClear ==
    /\ lru' = LRUCache_clear(lru)
    /\ lruOp' = [name |-> "clear", outcome |-> Null]
    /\ lruRet' = Null
    /\ lastSet' = KeepStored(lastSet, lru')
    /\ recency' = KeepStoredSeq(recency, lru')
    /\ UNCHANGED <<now, fnVars, engine, keyVars, sysVars>>

LruRemoveExpired(cutoff) ==
    /\ lru' = LRUCache_removeExpired(lru, cutoff)
    /\ lruOp' = [name |-> "removeExpired", outcome |-> Null]
    /\ lruRet' = Null
    /\ lastSet' = KeepStored(lastSet, lru')
    /\ recency' = KeepStoredSeq(recency, lru')
    /\ UNCHANGED <<now, fnVars, engine, keyVars, sysVars>>

LruNext ==
    \/ Tick
    \/ \E k \in Keys, v \in Values : LruSet(k, v)
    \/ \E k \in Keys : LruGet(k)
    \/ \E k \in Keys : LruHas(k)
    \/ \E k \in Keys : LruDelete(k)
    \/ LruClear
    \/ \E cutoff \in Times : LruRemoveExpired(cutoff)

(***************************************************************************)
(* Regular expressions.  A pattern is a tree of the nodes below; MatchEnds *)
(* gives the positions at which a match of the pattern can end when it     *)
(* starts at one of the given positions.                                   *)
(***************************************************************************)
LowerCaseLetters == <<"a", "b", "c", "d", "e", "f", "g", "h", "i", "j", "k", "l", "m", "n", "o", "p", "q", "r", "s", "t", "u", "v", "w", "x", "y", "z">>
UpperCaseLetters == <<"A", "B", "C", "D", "E", "F", "G", "H", "I", "J", "K", "L", "M", "N", "O", "P", "Q", "R", "S", "T", "U", "V", "W", "X", "Y", "Z">>
Range(chars) == {chars[i] : i \in 1..Len(chars)}
Letters == Range(LowerCaseLetters) \cup Range(UpperCaseLetters)
Digits == Range(<<"0", "1", "2", "3", "4", "5", "6", "7", "8", "9">>)
WordChars == Letters \cup Digits \cup {"_"}          \* \w
Whitespace == {" ", "\t", "\n", "\r", "\f"}           \* \s, as far as the strings of the model go

ToLowerChar(c) ==
    IF c \in Range(UpperCaseLetters)
    THEN LowerCaseLetters[CHOOSE i \in 1..26 : UpperCaseLetters[i] = c]
    ELSE c
ToLowerCase(str) == [i \in 1..Len(str) |-> ToLowerChar(str[i])]

OneOf(set) == [t |-> "set", set |-> set]
NoneOf(set) == [t |-> "not", set |-> set]
Sequence(rs) == [t |-> "seq", rs |-> rs]
Alt(rs) == [t |-> "alt", rs |-> rs]
Star(r) == [t |-> "star", r |-> r]
Lit(chars) == Sequence([i \in 1..Len(chars) |-> OneOf({chars[i]})])
Plus(r) == Sequence(<<r, Star(r)>>)
Optional(r) == Alt(<<r, Sequence(<<>>)>>)
AtLeast(r, n) == Sequence([i \in 1..n |-> r] \o <<Star(r)>>)
Bol == [t |-> "bol"]
Eol == [t |-> "eol"]
WordBoundary == [t |-> "wordb"]

IsWordAt(str, i) == i >= 1 /\ i <= Len(str) /\ str[i] \in WordChars

RECURSIVE MatchEnds(_, _, _)
RECURSIVE StarEnds(_, _, _)
MatchEnds(r, str, starts) ==
    IF starts = {} THEN {} ELSE
    CASE r.t = "set" -> {i + 1 : i \in {j \in starts : j <= Len(str) /\ str[j] \in r.set}}
      [] r.t = "not" -> {i + 1 : i \in {j \in starts : j <= Len(str) /\ str[j] \notin r.set}}
      [] r.t = "seq" -> IF r.rs = <<>> THEN starts
                        ELSE MatchEnds(Sequence(Tail(r.rs)), str, MatchEnds(Head(r.rs), str, starts))
      [] r.t = "alt" -> UNION {MatchEnds(r.rs[k], str, starts) : k \in 1..Len(r.rs)}
      [] r.t = "star" -> StarEnds(r.r, str, starts)
      [] r.t = "bol" -> starts \cap {1}
      [] r.t = "eol" -> starts \cap {Len(str) + 1}
      [] r.t = "wordb" -> {i \in starts : IsWordAt(str, i - 1) # IsWordAt(str, i)}
StarEnds(r, str, reached) ==
    LET further == MatchEnds(r, str, reached) \ reached
    IN  IF further = {} THEN reached ELSE StarEnds(r, str, reached \cup further)

\* regex.test(str) for a regex without the g flag; with the i flag the
\* pattern is written in lower case and the string is lowered first.
RegExpTest(regex, str) ==
    LET subject == IF regex.ignoreCase THEN ToLowerCase(str) ELSE str
    IN  MatchEnds(regex.pattern, subject, 1..(Len(str) + 1)) # {}

\* Whether the pattern matches the whole of str.
FullMatch(pattern, str) == (Len(str) + 1) \in MatchEnds(pattern, str, {1})

(***************************************************************************)
(* core/security: safe regex execution, sanitization, pattern detection.   *)
(* A regex execution that outlasts its timeout is the input `slow`.        *)
(***************************************************************************)
IsString(v) == DOMAIN v = {"str"}

\* Values of the other types: numbers, arrays, and plain objects with the
\* properties classes, html and options (Undefined where the object has none).
JSNum(n) == [num |-> n]
JSArr(items) == [arr |-> items]
JSObj(classes, html, options) ==
    [obj |-> [classes |-> classes, html |-> html, options |-> options]]
IsArray(v) == DOMAIN v = {"arr"}
TypeOf(v) ==
    IF v = Undefined THEN "undefined"
    ELSE IF IsString(v) THEN "string"
    ELSE IF DOMAIN v = {"num"} THEN "number"
    ELSE IF DOMAIN v = {"bool"} THEN "boolean"
    ELSE "object"
\* value[name] on a value that is neither null nor undefined
Prop(v, name) ==
    IF DOMAIN v = {"obj"} THEN v.obj[name]
    ELSE IF name \in DOMAIN v THEN v[name]
    ELSE Undefined
\* [...value] throws a TypeError unless the value is iterable
IsIterable(v) == IsString(v) \/ IsArray(v)

RECURSIVE DecimalDigits(_)
DecimalDigits(n) ==
    LET digit(d) == <<"0", "1", "2", "3", "4", "5", "6", "7", "8", "9">>[d + 1]
    IN  IF n < 10 THEN <<digit(n)>> ELSE DecimalDigits(n \div 10) \o <<digit(n % 10)>>
\* `${value}` for strings, undefined, null and the natural numbers
TemplateText(v) ==
    IF IsString(v) THEN v.str
    ELSE IF v = Undefined THEN <<"u", "n", "d", "e", "f", "i", "n", "e", "d">>
    ELSE IF v = Null THEN Lit_null
    ELSE DecimalDigits(v.num)

\* isDangerousRegex(regex.source) is false for every regex of the model:
\* none has a quantified group that itself holds a quantifier or an alternation.
isDangerousRegex(regex) == FALSE

\* syncSafeRegexTest(regex, input, {maxLength}) on a string input.
syncSafeRegexTest(regex, input, maxLength, slow) ==
    IF Len(input) > maxLength
    THEN [result |-> FALSE, timedOut |-> FALSE, error |-> [message |-> "Input too long"]]
    ELSE IF isDangerousRegex(regex)
    THEN [result |-> FALSE, timedOut |-> FALSE, error |-> [message |-> "Potentially unsafe regex pattern detected"]]
    ELSE IF slow
    THEN [result |-> FALSE, timedOut |-> TRUE, error |-> [message |-> "Regex execution took too long"]]
    ELSE [result |-> RegExpTest(regex, input), timedOut |-> FALSE, error |-> Null]

\* safeRegexMatch(regex, input, timeout) for a regex whose match array is
\* computed by `matchOf`; the result is an object, not the match array.
safeRegexMatch(matchOf, slow) ==
    IF slow
    THEN [matches |-> Null, timedOut |-> TRUE, error |-> [message |-> "Regex match took too long"]]
    ELSE [matches |-> matchOf, timedOut |-> FALSE, error |-> Null]

\* value.length: defined on strings and arrays, undefined on other objects.
JsLength(v) ==
    IF DOMAIN v = {"str"} THEN [num |-> Len(v.str)]
    ELSE IF DOMAIN v = {"arr"} THEN [num |-> Len(v.arr)]
    ELSE Undefined
\* a >= n: false when a is undefined (NaN).
JsAtLeast(a, n) == DOMAIN a = {"num"} /\ a.num >= n

ControlChars == {"\f"}   \* [\x00-\x08\x0B\x0C\x0E-\x1F\x7F], as far as the strings of the model go

RECURSIVE CollapseWhitespace(_)
CollapseWhitespace(str) ==
    IF str = <<>> THEN <<>>
    ELSE IF Head(str) \in Whitespace
    THEN LET rest == CollapseWhitespace(Tail(str))
         IN  IF rest # <<>> /\ Head(rest) = " " THEN rest ELSE <<" ">> \o rest
    ELSE <<Head(str)>> \o CollapseWhitespace(Tail(str))

RECURSIVE TrimStart(_)
TrimStart(str) ==
    IF str # <<>> /\ Head(str) \in Whitespace THEN TrimStart(Tail(str)) ELSE str
RECURSIVE TrimEnd(_)
TrimEnd(str) ==
    IF str # <<>> /\ str[Len(str)] \in Whitespace
    THEN TrimEnd(SubSeq(str, 1, Len(str) - 1)) ELSE str
Trim(str) == TrimEnd(TrimStart(str))

\* cleanDangerousCharacters: the cleaned string, or Null
cleanDangerousCharacters(input) ==
    LET cleaned == CollapseWhitespace(SelectSeq(input, LAMBDA c : c \notin ControlChars))
    IN  IF 2 * Len(cleaned) < Len(input) /\ Len(input) > 10 THEN Null ELSE JSStr(cleaned)

\* sanitizeInput of any value: a string value, or Null
sanitizeInput(input) ==
    IF ~IsString(input) THEN Null
    ELSE IF Len(input.str) > MAX_CLASS_LENGTH THEN Null
    ELSE LET cleaned == cleanDangerousCharacters(input.str)
         IN  IF ~Truthy(cleaned) THEN Null ELSE JSStr(Trim(cleaned.str))

Backslash == OneOf({"\\"})
HexEscape(digit, alternatives) == Sequence(<<Backslash, OneOf({digit}), OneOf(alternatives)>>)
Spaces == Star(OneOf(Whitespace))
IgnoreCase(pattern) == [pattern |-> pattern, ignoreCase |-> TRUE]

\* DANGEROUS_PATTERNS, in the order of the object's keys.
DANGEROUS_PATTERNS ==
    << [name |-> "javascript_url", riskLevel |-> "critical",
        regex |-> IgnoreCase(Lit(<<"j", "a", "v", "a", "s", "c", "r", "i", "p", "t", ":">>))],
       [name |-> "data_url", riskLevel |-> "high",
        regex |-> IgnoreCase(Lit(<<"d", "a", "t", "a", ":">>))],
       [name |-> "css_expression", riskLevel |-> "critical",
        regex |-> IgnoreCase(Sequence(<<Lit(<<"e", "x", "p", "r", "e", "s", "s", "i", "o", "n">>), Spaces, Lit(<<"(">>)>>))],
       [name |-> "css_behavior", riskLevel |-> "critical",
        regex |-> IgnoreCase(Sequence(<<Lit(<<"b", "e", "h", "a", "v", "i", "o", "r">>), Spaces, Lit(<<":">>)>>))],
       [name |-> "css_binding", riskLevel |-> "high",
        regex |-> IgnoreCase(Sequence(<<Lit(<<"b", "i", "n", "d", "i", "n", "g">>), Spaces, Lit(<<":">>)>>))],
       [name |-> "encoded_expression", riskLevel |-> "critical",
        regex |-> IgnoreCase(Sequence(<<
            HexEscape("6", {"5", "e"}), HexEscape("7", {"8", "x"}), HexEscape("7", {"0", "p"}),
            HexEscape("7", {"2", "r"}), HexEscape("6", {"5", "e"}), HexEscape("7", {"3", "s"}),
            HexEscape("7", {"3", "s"}), HexEscape("6", {"9", "i"}), HexEscape("6", {"f", "o"}),
            HexEscape("6", {"e", "n"})>>))],
       [name |-> "encoded_javascript", riskLevel |-> "critical",
        regex |-> IgnoreCase(Sequence(<<
            HexEscape("6", {"a", "j"}), HexEscape("6", {"a", "j"}), HexEscape("7", {"6", "v"}),
            HexEscape("6", {"a", "j"}), HexEscape("7", {"3", "s"}), HexEscape("6", {"3", "c"}),
            HexEscape("7", {"2", "r"}), HexEscape("6", {"9", "i"}), HexEscape("7", {"0", "p"}),
            HexEscape("7", {"4", "t"})>>))],
       [name |-> "unicode_script", riskLevel |-> "critical",
        regex |-> IgnoreCase(Sequence(<<
            HexEscape("3", {"c", "f"}), HexEscape("7", {"3", "s"}), HexEscape("6", {"3", "c"}),
            HexEscape("7", {"2", "r"}), HexEscape("6", {"9", "i"}), HexEscape("7", {"0", "p"}),
            HexEscape("7", {"4", "t"}), HexEscape("3", {"e", "f"})>>))],
       [name |-> "behavior_property", riskLevel |-> "critical",
        regex |-> IgnoreCase(Sequence(<<Lit(<<"b", "e", "h", "a", "v", "i", "o", "r">>), Spaces, Lit(<<"-">>), Spaces, Lit(<<"[">>)>>))],
       [name |-> "css_import", riskLevel |-> "medium",
        regex |-> IgnoreCase(Lit(<<"@", "i", "m", "p", "o", "r", "t">>))],
       [name |-> "css_comment", riskLevel |-> "low",
        regex |-> [pattern |-> Sequence(<<Lit(<<"/", "*">>), Star(NoneOf({})), Lit(<<"*", "/">>)>>),
                   ignoreCase |-> FALSE]],
       [name |-> "html_script", riskLevel |-> "critical",
        regex |-> IgnoreCase(Lit(<<"<", "s", "c", "r", "i", "p", "t">>))],
       [name |-> "html_iframe", riskLevel |-> "high",
        regex |-> IgnoreCase(Lit(<<"<", "i", "f", "r", "a", "m", "e">>))],
       [name |-> "event_handler", riskLevel |-> "critical",
        regex |-> IgnoreCase(Sequence(<<Lit(<<"o", "n">>), Plus(OneOf(WordChars)), Spaces, Lit(<<"=">>)>>))],
       [name |-> "url_scheme", riskLevel |-> "medium",
        regex |-> IgnoreCase(Sequence(<<WordBoundary,
            Alt(<<Lit(<<"f", "i", "l", "e">>), Lit(<<"f", "t", "p">>), Lit(<<"m", "a", "i", "l", "t", "o">>), Lit(<<"t", "e", "l">>)>>), Lit(<<":">>)>>))],
       [name |-> "css_calc_injection", riskLevel |-> "high",
        regex |-> IgnoreCase(Sequence(<<Lit(<<"c", "a", "l", "c">>), Spaces, Lit(<<"(">>), Star(NoneOf({")"})),
            Alt(<<Lit(<<"e", "x", "p", "r", "e", "s", "s", "i", "o", "n">>), Lit(<<"j", "a", "v", "a", "s", "c", "r", "i", "p", "t">>), Lit(<<"e", "v", "a", "l">>)>>)>>))],
       [name |-> "suspicious_repetition", riskLevel |-> "high",
        regex |-> IgnoreCase(Sequence(<<Bol,
            Alt([i \in 1..Len(LowerCaseLetters) |->
                    AtLeast(OneOf({LowerCaseLetters[i]}), RepetitionLength)]),
            NoneOf(Range(LowerCaseLetters))>>))] >>

\* detectDangerousPatterns(input) on a string.  A test that reports an error
\* (a timeout is one: its result carries an error text) skips the pattern, so
\* the branch for testResult.timedOut is never taken.  The css_comment regex
\* has the g flag; a successful test is followed by input.match(regex), which
\* resets lastIndex, so every test starts at 0.
RECURSIVE MatchedPatterns(_, _, _)
MatchedPatterns(patterns, input, slow) ==
    IF patterns = <<>> THEN <<>>
    ELSE LET patternInfo == Head(patterns)
             testResult == syncSafeRegexTest(patternInfo.regex, input, DetectMaxLength, slow)
             rest == MatchedPatterns(Tail(patterns), input, slow)
         IN  IF Truthy(testResult.error) THEN rest
             ELSE IF testResult.timedOut
             THEN <<[name |-> patternInfo.name, riskLevel |-> "critical"]>> \o rest
             ELSE IF testResult.result
             THEN <<[name |-> patternInfo.name, riskLevel |-> patternInfo.riskLevel]>> \o rest
             ELSE rest

getRiskPriority(riskLevel) ==
    CASE riskLevel = "low" -> 1 [] riskLevel = "medium" -> 2 [] riskLevel = "high" -> 3
      [] riskLevel = "critical" -> 4 [] OTHER -> 0

RECURSIVE HighestRisk(_, _)
HighestRisk(matched, highest) ==
    IF matched = <<>> THEN highest
    ELSE HighestRisk(Tail(matched),
                     IF getRiskPriority(Head(matched).riskLevel) > getRiskPriority(highest)
                     THEN Head(matched).riskLevel ELSE highest)

detectDangerousPatterns(input, slow) ==
    LET matchedPatterns == MatchedPatterns(DANGEROUS_PATTERNS, input, slow)
    IN  [isDangerous |-> Len(matchedPatterns) > 0,
         matchedPatterns |-> matchedPatterns,
         riskLevel |-> HighestRisk(matchedPatterns, "none")]

(***************************************************************************)
(* core/errors: ZyraResult and the errors of ErrorFactory.  An error is    *)
(* its code, reason, context and suggestions, and its creation time.       *)
(***************************************************************************)
ZyraResult_success(data) == [success |-> TRUE, data |-> data, error |-> Null]
ZyraResult_error(error) == [success |-> FALSE, data |-> Null, error |-> error]

ZyraError(code, reason, context, suggestions, time) ==
    [code |-> code, reason |-> reason, context |-> context,
     suggestions |-> suggestions, timestamp |-> time]

ErrorFactory_invalidInput(input, reason, time) ==
    ZyraError("INVALID_INPUT", reason, [input |-> input], <<>>, time)

ErrorFactory_invalidClassSyntax(className, reason, suggestions, time) ==
    ZyraError("INVALID_CLASS_SYNTAX", reason, [className |-> className],
              IF Len(suggestions) > 0 THEN suggestions
              ELSE <<"Use bracket syntax: property-[value]",
                     "Use shorthand syntax: property-value",
                     "Check for unmatched brackets or invalid characters">>,
              time)

ErrorFactory_dangerousInput(input, patterns, time) ==
    ZyraError("DANGEROUS_INPUT", "Input contains dangerous patterns",
              [input |-> input, detectedPatterns |-> patterns],
              <<"Remove javascript: URLs", "Remove data: URLs",
                "Remove CSS expressions", "Use safe CSS values only">>,
              time)

ErrorFactory_invalidCSSValue(property, value, reason, time) ==
    ZyraError("INVALID_CSS_VALUE", reason, [property |-> property, value |-> value],
              <<"Check for unmatched parentheses", "Verify CSS function syntax">>, time)

ErrorFactory_propertyNotSupported(prefix, time) ==
    ZyraError("PROPERTY_NOT_SUPPORTED", "Property not supported", [property |-> prefix],
              <<>>, time)

(***************************************************************************)
(* core/parser: parseCSSSyntax, generateSelector and parseClassCore.       *)
(***************************************************************************)
\* PROPERTY_MAP.get(prefix) for the prefixes of the model's tokens.
PROPERTY_MAP_get(prefix) ==
    CASE prefix = <<"p">> -> JSStr(<<"p", "a", "d", "d", "i", "n", "g">>)
      [] prefix = <<"m">> -> JSStr(<<"m", "a", "r", "g", "i", "n">>)
      [] OTHER -> Undefined

StartsWith(str, lit) == Len(str) >= Len(lit) /\ SubSeq(str, 1, Len(lit)) = lit
Includes(str, lit) ==
    \E i \in 1..(Len(str) + 1) :
        i + Len(lit) - 1 <= Len(str) /\ SubSeq(str, i, i + Len(lit) - 1) = lit

cssFunctions ==
    << <<"l", "i", "n", "e", "a", "r", "-", "g", "r", "a", "d", "i", "e", "n", "t">>, <<"r", "a", "d", "i", "a", "l", "-", "g", "r", "a", "d", "i", "e", "n", "t">>, <<"c", "o", "n", "i", "c", "-", "g", "r", "a", "d", "i", "e", "n", "t">>, <<"r", "g", "b">>, <<"r", "g", "b", "a">>,
       <<"h", "s", "l">>, <<"h", "s", "l", "a">>, <<"c", "a", "l", "c">>, <<"m", "i", "n">>, <<"m", "a", "x">>, <<"c", "l", "a", "m", "p">>, <<"v", "a", "r">>, <<"e", "n", "v">>, <<"u", "r", "l">>,
       <<"i", "m", "a", "g", "e">>, <<"t", "r", "a", "n", "s", "f", "o", "r", "m">>, <<"r", "o", "t", "a", "t", "e">>, <<"s", "c", "a", "l", "e">>, <<"t", "r", "a", "n", "s", "l", "a", "t", "e">>, <<"c", "u", "b", "i", "c", "-", "b", "e", "z", "i", "e", "r">>,
       <<"s", "t", "e", "p", "s">> >>

containsCSSFunction(value) ==
    \E k \in 1..Len(cssFunctions) : Includes(value, cssFunctions[k] \o <<"(">>)

\* smartCommaSplit: st is [result, current, parenDepth] after the characters read so far.
RECURSIVE SplitFrom(_, _)
SplitFrom(rest, st) ==
    IF rest = <<>> THEN st
    ELSE LET char == Head(rest)
         IN  IF char = "," /\ st.parenDepth = 0
             THEN SplitFrom(Tail(rest), [st EXCEPT !.result = Append(@, st.current),
                                                   !.current = <<>>])
             ELSE SplitFrom(Tail(rest),
                     [st EXCEPT !.current = Append(@, char),
                                !.parenDepth = IF char = "(" THEN @ + 1
                                               ELSE IF char = ")" THEN @ - 1 ELSE @])

smartCommaSplit(value) ==
    LET st == SplitFrom(value, [result |-> <<>>, current |-> <<>>, parenDepth |-> 0])
        result == IF st.current # <<>> THEN Append(st.result, st.current) ELSE st.result
    IN  IF Len(result) > 0 THEN result ELSE <<value>>

\* parseCSSSyntax(cssValue) on a string: the parsed value object, or Null
parseCSSSyntax(cssValue) ==
    IF cssValue = <<>> THEN Null
    ELSE IF containsCSSFunction(cssValue)
    THEN [cssValue |-> Trim(cssValue), values |-> <<Trim(cssValue)>>, isFunction |-> TRUE]
    ELSE LET values == smartCommaSplit(cssValue)
             trimmedValues == [i \in 1..Len(values) |-> Trim(values[i])]
         IN  IF Len(values) = 1
             THEN [cssValue |-> Trim(values[1]), values |-> values, isFunction |-> FALSE]
             ELSE [cssValue |-> ArrayJoin(trimmedValues, <<" ">>), values |-> trimmedValues,
                   isFunction |-> FALSE]

\* escapeCSSSelector: a backslash before each of [ ] : , ( ) . # whitespace + > ~
SelectorSpecials == {"[", "]", ":", ",", "(", ")", ".", "#", "+", ">", "~"} \cup Whitespace
RECURSIVE escapeCSSSelector(_)
escapeCSSSelector(className) ==
    IF className = <<>> THEN <<>>
    ELSE (IF Head(className) \in SelectorSpecials THEN <<"\\">> ELSE <<>>)
            \o <<Head(className)>> \o escapeCSSSelector(Tail(className))

generateSelector(className) == <<".">> \o escapeCSSSelector(className)

DigitsPattern == Plus(OneOf(Digits))
NumberPattern == Sequence(<<DigitsPattern, Optional(Sequence(<<Lit(<<".">>), DigitsPattern>>))>>)
SizeUnits ==
    << <<"p", "x">>, <<"e", "m">>, <<"r", "e", "m">>, <<"%">>, <<"v", "w">>, <<"v", "h">>, <<"p", "t">>, <<"p", "c">>, <<"i", "n">>, <<"c", "m">>,
       <<"m", "m">>, <<"e", "x">>, <<"c", "h">>, <<"v", "m", "i", "n">>, <<"v", "m", "a", "x">> >>

isSizeValue(value) ==
    \/ FullMatch(Sequence(<<NumberPattern, Alt([k \in 1..Len(SizeUnits) |-> Lit(SizeUnits[k])])>>),
                 ToLowerCase(value))
    \/ FullMatch(NumberPattern, value)

isColorValue(value) ==
    \/ StartsWith(value, <<"#">>)
    \/ StartsWith(value, <<"r", "g", "b">>)
    \/ StartsWith(value, <<"h", "s", "l">>)
    \/ FullMatch(Plus(OneOf(Letters)), value)
    \/ Includes(value, <<"v", "a", "r", "(", "-", "-">>)

\* parseBracketSyntax(prefix, value) on strings
parseBracketSyntax(prefix, value, time) ==
    LET mapped == PROPERTY_MAP_get(prefix)
        property ==
            IF prefix = <<"t", "e", "x", "t">> /\ ~Truthy(mapped)
            THEN (IF isColorValue(value) THEN JSStr(<<"c", "o", "l", "o", "r">>)
                  ELSE IF isSizeValue(value) THEN JSStr(<<"f", "o", "n", "t", "-", "s", "i", "z", "e">>)
                  ELSE JSStr(<<"c", "o", "l", "o", "r">>))
            ELSE IF prefix = <<"t", "e", "x", "t">> /\ mapped = JSStr(<<"c", "o", "l", "o", "r">>) /\ isSizeValue(value)
            THEN JSStr(<<"f", "o", "n", "t", "-", "s", "i", "z", "e">>)
            ELSE mapped
        valueParseResult == parseCSSSyntax(value)
        className == prefix \o <<"-", "[">> \o value \o <<"]">>
    IN  IF ~Truthy(property)
        THEN ZyraResult_error(ErrorFactory_propertyNotSupported(prefix, time))
        ELSE IF ~Truthy(valueParseResult)
        THEN ZyraResult_error(ErrorFactory_invalidCSSValue(property.str, value,
                                  "Could not parse CSS value", time))
        ELSE ZyraResult_success(
                [className |-> className,
                 prefix |-> prefix,
                 property |-> property.str,
                 value |-> valueParseResult.cssValue,
                 rawValue |-> value,
                 values |-> valueParseResult.values,
                 syntax |-> "bracket",
                 selector |-> generateSelector(className),
                 isFunction |-> valueParseResult.isFunction,
                 metadata |-> [parseTimestamp |-> time, fromCache |-> FALSE]])

\* /^[a-zA-Z][a-zA-Z0-9-]*-\[[^\]]+\]$/
validPattern ==
    [pattern |-> Sequence(<<Bol, OneOf(Letters), Star(OneOf(Letters \cup Digits \cup {"-"})),
                            Lit(<<"-", "[">>), Plus(NoneOf({"]"})), Lit(<<"]">>), Eol>>),
     ignoreCase |-> FALSE]

\* validateClassSyntax(className) on a non-empty string.  The object that
\* syncSafeRegexTest returns is used as the boolean, and an object is truthy.
validateClassSyntax(className, slow) ==
    LET isValid == syncSafeRegexTest(validPattern, className, DefaultMaxLength, slow)
    IN  IF ~Truthy(isValid)
        THEN [isValid |-> FALSE, reason |-> "Invalid character pattern"]
        ELSE [isValid |-> TRUE, reason |-> Null]

\* sanitized.match(/^([a-zA-Z-]+)-\[([^\]]+)\]$/): the array [match, prefix, value], or Null
BracketMatch(sanitized) ==
    LET n == Len(sanitized)
        splits == {k \in 1..n :
                     /\ k + 3 <= n - 1
                     /\ FullMatch(Plus(OneOf(Letters \cup {"-"})), SubSeq(sanitized, 1, k))
                     /\ SubSeq(sanitized, k + 1, k + 2) = <<"-", "[">>
                     /\ FullMatch(Plus(NoneOf({"]"})), SubSeq(sanitized, k + 3, n - 1))
                     /\ sanitized[n] = "]"}
    IN  IF splits = {} THEN Null
        ELSE LET k == CHOOSE x \in splits : \A y \in splits : y <= x
             IN  [arr |-> <<sanitized, SubSeq(sanitized, 1, k), SubSeq(sanitized, k + 3, n - 1)>>]

\* The calls parseClassCore(className) makes, in order, and the threat
\* reports it obtains from detectDangerousPatterns.
parseClassCoreCalls(className, slow) ==
    IF ~Truthy(className) \/ ~IsString(className)
    THEN [calls |-> <<>>, reports |-> <<>>]
    ELSE LET sanitized == sanitizeInput(className)
         IN  IF ~Truthy(sanitized)
             THEN [calls |-> <<"sanitizeInput">>, reports |-> <<>>]
             ELSE LET securityCheck == detectDangerousPatterns(sanitized.str, slow)
                      syntaxValidation == validateClassSyntax(sanitized.str, slow)
                      bracketMatches == safeRegexMatch(BracketMatch(sanitized.str), slow)
                      checked == <<"sanitizeInput", "detectDangerousPatterns">>
                  IN  IF securityCheck.isDangerous
                      THEN [calls |-> checked, reports |-> <<securityCheck>>]
                      ELSE IF ~syntaxValidation.isValid
                      THEN [calls |-> checked \o <<"validateClassSyntax">>,
                            reports |-> <<securityCheck>>]
                      ELSE IF Truthy(bracketMatches) /\ JsAtLeast(JsLength(bracketMatches), 3)
                      THEN [calls |-> checked \o <<"validateClassSyntax", "safeRegexMatch",
                                                   "parseBracketSyntax">>,
                            reports |-> <<securityCheck>>]
                      ELSE [calls |-> checked \o <<"validateClassSyntax", "safeRegexMatch">>,
                            reports |-> <<securityCheck>>]

\* parseClassCore that lets every threat below critical through
parseClassCoreRejectsCriticalOnly(className, time, slow) ==
    IF ~Truthy(className) \/ ~IsString(className)
    THEN ZyraResult_error(ErrorFactory_invalidInput(className,
                              "Class name must be a non-empty string", time))
    ELSE LET sanitized == sanitizeInput(className)
         IN  IF ~Truthy(sanitized)
             THEN ZyraResult_error(ErrorFactory_dangerousInput(className,
                                       <<[name |-> "Contains dangerous characters", riskLevel |-> "none"]>>, time))
             ELSE LET securityCheck == detectDangerousPatterns(sanitized.str, slow)
                  IN  IF securityCheck.isDangerous /\ securityCheck.riskLevel = "critical"
                      THEN ZyraResult_error(ErrorFactory_dangerousInput(className,
                                                securityCheck.matchedPatterns, time))
                      ELSE ZyraResult_error(ErrorFactory_invalidClassSyntax(sanitized.str,
                                                "Unknown syntax pattern",
                                                <<"Use bracket syntax: property-[value]">>, time))

\* parseClassCore(className) at the given time
parseClassCore(className, time, slow) ==
    IF ~Truthy(className) \/ ~IsString(className)
    THEN ZyraResult_error(ErrorFactory_invalidInput(className,
                              "Class name must be a non-empty string", time))
    ELSE LET sanitized == sanitizeInput(className)
         IN  IF ~Truthy(sanitized)
             THEN ZyraResult_error(ErrorFactory_dangerousInput(className,
                                       <<[name |-> "Contains dangerous characters", riskLevel |-> "none"]>>, time))
             ELSE LET securityCheck == detectDangerousPatterns(sanitized.str, slow)
                      syntaxValidation == validateClassSyntax(sanitized.str, slow)
                      bracketMatches == safeRegexMatch(BracketMatch(sanitized.str), slow)
                  IN  IF securityCheck.isDangerous
                      THEN ZyraResult_error(ErrorFactory_dangerousInput(className,
                                                securityCheck.matchedPatterns, time))
                      ELSE IF ~syntaxValidation.isValid
                      THEN ZyraResult_error(ErrorFactory_invalidClassSyntax(sanitized.str,
                                                syntaxValidation.reason, <<>>, time))
                      ELSE IF Truthy(bracketMatches) /\ JsAtLeast(JsLength(bracketMatches), 3)
                      THEN parseBracketSyntax(bracketMatches.arr[2], bracketMatches.arr[3], time)
                      ELSE ZyraResult_error(ErrorFactory_invalidClassSyntax(sanitized.str,
                                                "Unknown syntax pattern",
                                                <<"Use bracket syntax: property-[value]">>, time))

(***************************************************************************)
(* ZyraCacheSystem (core/cache/index.js): globalCache with its three       *)
(* tiers, the interval timer of setupAutoOptimization, and parseClass =    *)
(* withParseCache(parseClassCore).  The stats counters are left out.  The  *)
(* clock is read at multiples of thirty minutes.                           *)
(***************************************************************************)
DateNow == now * TTL_THIRTY_MINUTES

\* The timers the runtime holds: [id, due].  setInterval is defined in every
\* runtime the package supports, so setupAutoOptimization always registers.
ZCS_setupAutoOptimization(z, registered, interval, time) ==
    LET id == Cardinality(registered) + 1
    IN  <<[z EXCEPT !.optimizationInterval = [timeout |-> id]],
          registered \cup {[id |-> id, due |-> time + interval, interval |-> interval]}>>

\* new ZyraCacheSystem(options) at the given time: <<system, timers>>
ZCS_new(config, registered, time) ==
    ZCS_setupAutoOptimization(
        [parseCache |-> LRUCache_new(config.maxParseCache, config.ttl),
         generationCache |-> LRUCache_new(config.maxGenerationCache, config.ttl),
         ruleCache |-> LRUCache_new(config.maxRuleCache, config.ttl),
         optimizationInterval |-> Undefined],
        registered, config.optimizeInterval, time)

CACHE_CONFIG ==
    [maxParseCache |-> MAX_PARSE_CACHE, maxGenerationCache |-> MAX_GENERATION_CACHE,
     maxRuleCache |-> MAX_RULE_CACHE, ttl |-> TTL_DEFAULT,
     optimizeInterval |-> TTL_THIRTY_MINUTES]

\* Each method returns <<system, key generator, returned value>>.  The key
\* generator memoizes a parse key under the class name itself; the class names
\* of the model have pairwise different texts, so the text stands for the value.
ZCS_cacheParsedClass(z, m, className, parsedResult, time) ==
    LET set(k) ==
            <<[z EXCEPT !.parseCache =
                  LRUCache_set(@, k[2], [className |-> className, parsedResult |-> parsedResult,
                                         timestamp |-> time], time)],
              k[1], Undefined>>
    IN  set(MKG_getParseKey(m, TemplateText(className)))

ZCS_getCachedParsedClass(z, m, className, time) ==
    LET return(k, got) ==
            <<[z EXCEPT !.parseCache = got[1]], k[1],
              IF Truthy(got[2]) THEN got[2].parsedResult ELSE Null>>
        get(k) == return(k, LRUCache_get(z.parseCache, k[2], time))
    IN  get(MKG_getParseKey(m, TemplateText(className)))

ZCS_cacheGeneratedCSS(z, m, classArray, options, result, time) ==
    LET set(k) ==
            <<[z EXCEPT !.generationCache =
                  LRUCache_set(@, k[2], [classArray |-> classArray, options |-> options,
                                         result |-> result, timestamp |-> time], time)],
              k[1], Undefined>>
    IN  set(MKG_getGenerationKey(m, classArray, options))

ZCS_getCachedGeneratedCSS(z, m, classArray, options, time) ==
    LET return(k, got) ==
            <<[z EXCEPT !.generationCache = got[1]], k[1],
              IF Truthy(got[2])
              THEN [css |-> got[2].result.css, rules |-> got[2].result.rules,
                    fromCache |-> TRUE, cacheTimestamp |-> got[2].timestamp]
              ELSE Null>>
        get(k) == return(k, LRUCache_get(z.generationCache, k[2], time))
    IN  get(MKG_getGenerationKey(m, classArray, options))

ZCS_cacheRule(z, m, selector, declarations, rule, time) ==
    LET set(k) ==
            <<[z EXCEPT !.ruleCache =
                  LRUCache_set(@, k[2], [selector |-> selector, declarations |-> declarations,
                                         rule |-> rule, timestamp |-> time], time)],
              k[1], Undefined>>
    IN  set(MKG_getRuleKey(m, selector, declarations))

ZCS_getCachedRule(z, m, selector, declarations, time) ==
    LET return(k, got) ==
            <<[z EXCEPT !.ruleCache = got[1]], k[1],
              IF Truthy(got[2]) THEN got[2].rule ELSE Null>>
        get(k) == return(k, LRUCache_get(z.ruleCache, k[2], time))
    IN  get(MKG_getRuleKey(m, selector, declarations))

ZCS_clear(z) ==
    [z EXCEPT !.parseCache = LRUCache_clear(@), !.generationCache = LRUCache_clear(@),
              !.ruleCache = LRUCache_clear(@)]

\* optimize() that leaves the rule cache out of the sweep.
ZCS_optimizeSkipsRuleCache(z, m, time) ==
    LET cutoffTime == time - TTL_THIRTY_MINUTES
    IN  <<[z EXCEPT !.parseCache = LRUCache_removeExpired(@, cutoffTime),
                    !.generationCache = LRUCache_removeExpired(@, cutoffTime)],
          MKG_optimize(m)>>

\* optimize(): <<system, key generator>>
ZCS_optimize(z, m, time) ==
    LET cutoffTime == time - TTL_THIRTY_MINUTES
    IN  <<[z EXCEPT !.parseCache = LRUCache_removeExpired(@, cutoffTime),
                    !.generationCache = LRUCache_removeExpired(@, cutoffTime),
                    !.ruleCache = LRUCache_removeExpired(@, cutoffTime)],
          MKG_optimize(m)>>

\* cleanup() that forgets the handle without clearInterval.
ZCS_cleanupKeepsTimer(z, registered) ==
    IF Truthy(z.optimizationInterval)
    THEN <<[z EXCEPT !.optimizationInterval = Null], registered>>
    ELSE <<z, registered>>

\* cleanup(): <<system, timers>>
ZCS_cleanup(z, registered) ==
    IF Truthy(z.optimizationInterval)
    THEN <<[z EXCEPT !.optimizationInterval = Null],
           {t \in registered : t.id # z.optimizationInterval.timeout}>>
    ELSE <<z, registered>>

\* cachedParse(className) of withParseCache(parseFunction), where the wrapped
\* function returns `result`: <<system, key generator, returned value>>
cachedParse(z, m, className, result, time) ==
    LET return(stored) == <<stored[1], stored[2], result>>
        miss(looked) ==
            IF Truthy(looked[3]) THEN looked
            ELSE IF Truthy(result)
            THEN return(ZCS_cacheParsedClass(looked[1], looked[2], className, result, time))
            ELSE <<looked[1], looked[2], result>>
    IN  miss(ZCS_getCachedParsedClass(z, m, className, time))

\* cachedGenerate(classArray, options) of withGenerationCache(generateFunction),
\* where the wrapped function returns `result`
cachedGenerate(z, m, classArray, options, result, time) ==
    LET return(stored) == <<stored[1], stored[2], result>>
        miss(looked) ==
            IF Truthy(looked[3]) THEN looked
            ELSE IF Truthy(result) /\ Truthy(JSStr(result.css))
            THEN return(ZCS_cacheGeneratedCSS(looked[1], looked[2], classArray, options, result, time))
            ELSE <<looked[1], looked[2], result>>
    IN  miss(ZCS_getCachedGeneratedCSS(z, m, classArray, options, time))

\* cachedRule(selector, declarations) of withRuleCache(ruleFunction), where the
\* wrapped function returns `result`
cachedRule(z, m, selector, declarations, result, time) ==
    LET return(stored) == <<stored[1], stored[2], result>>
        miss(looked) ==
            IF Truthy(looked[3]) THEN looked
            ELSE IF Truthy(result)
            THEN return(ZCS_cacheRule(looked[1], looked[2], selector, declarations, result, time))
            ELSE <<looked[1], looked[2], result>>
    IN  miss(ZCS_getCachedRule(z, m, selector, declarations, time))

(***************************************************************************)
(* The cache system under calls of its methods, parseClass, the timer and  *)
(* the clock.                                                              *)
(***************************************************************************)
Token_plain == <<"p", "1">>
ParseClassNames == {JSStr(Class_p1), JSStr(Class_m1), JSStr(Token_plain)}
SysClassNames == {JSStr(Class_p1)}
SysClassArrays == {<<Class_p1, Class_p12>>}
SysOptions == {Options(Undefined, Undefined, Undefined, Undefined, Undefined)}
SysDeclarations == {[str |-> Decl_padded]}
GeneratedResult == [css |-> <<".", "a">>, rules |-> <<>>]
GeneratedRule == [obj |-> "rule"]

Tiers == {"parseCache", "generationCache", "ruleCache"}
AgeOf(entry) == DateNow - entry.timestamp

\* What a sweep removed: the tier and age of each entry, and whether its TTL had elapsed.
SweptBy(z, z2) ==
    UNION {{[tier |-> tier, age |-> AgeOf(z[tier].cache[k]),
             expired |-> AgeOf(z[tier].cache[k]) > z[tier].ttl] :
               k \in (DOMAIN z[tier].cache) \ (DOMAIN z2[tier].cache)} :
           tier \in Tiers}

\* parseClassCore over the class names and clock readings of the model.
SysTimes == {t * TTL_THIRTY_MINUTES : t \in 0..SysMaxTime}
parseClassCoreOf ==
    [className \in ParseClassNames, time \in SysTimes, slow \in BOOLEAN |->
        parseClassCore(className, time, slow)]

GlobalKeyInit ==
    /\ keygen = MKG_new(GlobalKeyMaxSize, GlobalKeyEvictionSize)
    /\ keyOp = NoKeyOp
    /\ keyRet = Null
    /\ lastGen = Null

SysInit ==
    /\ zcs = ZCS_new(CACHE_CONFIG, {}, 0)[1]
    /\ timers = ZCS_new(CACHE_CONFIG, {}, 0)[2]
    /\ sysOp = [name |-> "new"]
    /\ sysRet = Undefined
    /\ cleanupCalled = FALSE
    /\ coldParse = [c \in ParseClassNames |-> Null]
    /\ fnCall = [name |-> "none"]
    /\ fnRet = Undefined
    /\ engine = Null

\* A method call that asks the key generator for keys.
SysCall(op, result) ==
    /\ keygen.accessCounter < SysMaxAccesses
    /\ result[2].accessCounter <= SysMaxAccesses
    /\ \A tier \in Tiers : \A k \in DOMAIN result[1][tier].cache :
          result[1][tier].cache[k].accessCount <= MaxAccessCount
    /\ zcs' = result[1]
    /\ keygen' = result[2]
    /\ sysRet' = result[3]
    /\ sysOp' = op
    /\ UNCHANGED <<now, fnVars, timers, cleanupCalled, lruVars, engine, keyOp, keyRet, lastGen>>

ParseClass(className, slow) ==
    LET warm == Truthy(ZCS_getCachedParsedClass(zcs, keygen, className, DateNow)[3])
    IN  /\ SysCall([name |-> "parseClass", className |-> className, warm |-> warm],
                   cachedParse(zcs, keygen, className,
                               parseClassCoreOf[className, DateNow, slow], DateNow))
        /\ coldParse' = IF warm THEN coldParse ELSE [coldParse EXCEPT ![className] = sysRet']

CachedGenerate(classArray, options) ==
    /\ SysCall([name |-> "cachedGenerate"],
               cachedGenerate(zcs, keygen, classArray, options, GeneratedResult, DateNow))
    /\ UNCHANGED coldParse

CachedRule(selector, declarations) ==
    /\ SysCall([name |-> "cachedRule"],
               cachedRule(zcs, keygen, selector, declarations, GeneratedRule, DateNow))
    /\ UNCHANGED coldParse

SysClear ==
    /\ zcs' = ZCS_clear(zcs)
    /\ sysOp' = [name |-> "clear"]
    /\ sysRet' = Undefined
    /\ UNCHANGED <<now, fnVars, timers, cleanupCalled, coldParse, lruVars, engine, keyVars>>

Sweep(name) ==
    /\ \E swept \in {ZCS_optimize(zcs, keygen, DateNow)} :
          /\ zcs' = swept[1]
          /\ keygen' = swept[2]
    /\ sysOp' = [name |-> name, swept |-> SweptBy(zcs, zcs')]
    /\ sysRet' = Undefined
    /\ UNCHANGED <<now, fnVars, cleanupCalled, coldParse, lruVars, engine, keyOp, keyRet, lastGen>>

\* A direct call of optimize().
Optimize ==
    /\ Sweep("optimize")
    /\ UNCHANGED timers

\* The runtime runs the callback of a due interval timer and re-arms it.
TimerFires ==
    \E t \in timers :
        /\ DateNow >= t.due
        /\ Sweep("timer")
        /\ timers' = (timers \ {t}) \cup {[t EXCEPT !.due = DateNow + t.interval]}

Cleanup ==
    /\ \E cleaned \in {ZCS_cleanup(zcs, timers)} :
          /\ zcs' = cleaned[1]
          /\ timers' = cleaned[2]
    /\ cleanupCalled' = TRUE
    /\ sysOp' = [name |-> "cleanup"]
    /\ sysRet' = Undefined
    /\ UNCHANGED <<now, fnVars, coldParse, lruVars, engine, keyVars>>

SysTick ==
    /\ now < SysMaxTime
    /\ now' = now + 1
    /\ sysOp' = [name |-> "tick"]
    /\ UNCHANGED <<zcs, timers, sysRet, cleanupCalled, coldParse, lruVars, engine, keyVars, fnVars>>

SysNext ==
    \/ \E className \in SysClassNames, slow \in BOOLEAN : ParseClass(className, slow)
    \/ \E classArray \in SysClassArrays, options \in SysOptions :
          CachedGenerate(classArray, options)
    \/ \E selector \in Selectors, declarations \in SysDeclarations :
          CachedRule(selector, declarations)
    \/ SysClear
    \/ Optimize
    \/ TimerFires
    \/ Cleanup
    \/ SysTick

\* parseClass alone: calls of parseClass, sweeps, clear() and the clock.
ParseNext ==
    \/ \E className \in ParseClassNames, slow \in BOOLEAN : ParseClass(className, slow)
    \/ SysClear
    \/ Optimize
    \/ SysTick

(***************************************************************************)
(* detectDangerousPatterns applied to strings that hold a dangerous token  *)
(* inside other text, and to one string longer than its length limit.      *)
(***************************************************************************)
DangerTokens == {<<"j", "a", "v", "a", "s", "c", "r", "i", "p", "t", ":">>, <<"<", "s", "c", "r", "i", "p", "t">>, <<"e", "x", "p", "r", "e", "s", "s", "i", "o", "n", "(">>}
Surroundings == {<<>>, <<"p", "-", "[">>, <<"]">>, <<"w", "-", "[", "u", "r", "l", "(">>, <<")", "]">>, <<"a", " ", "b", " ">>, <<"a", "l", "e", "r", "t", "(", "1", ")">>}
Filler(n) == [i \in 1..n |-> "a"]
LongInput == <<"j", "a", "v", "a", "s", "c", "r", "i", "p", "t", ":">> \o Filler(DetectMaxLength)
DetectInputs ==
    {before \o token \o after : before \in Surroundings, token \in DangerTokens,
                                 after \in Surroundings}
      \cup {LongInput}

\* One call per behaviour: the function keeps no state between calls.
DetectDangerousPatterns(input, slow) ==
    /\ fnCall.name = "none"
    /\ fnCall' = [name |-> "detectDangerousPatterns", input |-> input, slow |-> slow]
    /\ fnRet' = detectDangerousPatterns(input, slow)
    /\ UNCHANGED <<now, lruVars, engine, keyVars, sysVars>>

DetectNext ==
    \E input \in DetectInputs, slow \in BOOLEAN : DetectDangerousPatterns(input, slow)

(***************************************************************************)
(* parseClass = withParseCache(parseClassCore) applied to class names that *)
(* hold threats of every risk level, and to harmless ones.                 *)
(***************************************************************************)
Class_expression == <<"w", "-", "[", "e", "x", "p", "r", "e", "s", "s", "i", "o", "n", "(", "a", "l", "e", "r", "t", "(", "1", ")", ")", "]">>
Class_javascript == <<"b", "g", "-", "[", "u", "r", "l", "(", "j", "a", "v", "a", "s", "c", "r", "i", "p", "t", ":", "x", ")", "]">>
Class_data == <<"b", "g", "-", "[", "u", "r", "l", "(", "d", "a", "t", "a", ":", "x", ")", "]">>
Class_iframe == <<"w", "-", "[", "<", "i", "f", "r", "a", "m", "e", "]">>
Class_import == <<"p", "-", "[", "@", "i", "m", "p", "o", "r", "t", "]">>
Class_comment == <<"p", "-", "[", "/", "*", "x", "*", "/", "1", "]">>
ThreatClassNames ==
    {JSStr(Class_expression), JSStr(Class_javascript), JSStr(Class_data), JSStr(Class_iframe),
     JSStr(Class_import), JSStr(Class_comment), JSStr(Class_p1), JSStr(Token_plain)}

\* parseClassCore, with its calls, over these class names and the clock readings.
parseClassCoreTraced ==
    [className \in ThreatClassNames, time \in SysTimes, slow \in BOOLEAN |->
        [result |-> parseClassCore(className, time, slow),
         trace |-> parseClassCoreCalls(className, slow)]]

CallsMade == IF fnCall.name = "none" THEN 0 ELSE fnCall.count

\* parseClass(className): on a cache hit the wrapped function is not called.
ParseClassTraced(className, slow) ==
    /\ CallsMade < ThreatMaxCalls
    /\ \E traced \in {parseClassCoreTraced[className, DateNow, slow]} :
       \E warm \in {Truthy(ZCS_getCachedParsedClass(zcs, keygen, className, DateNow)[3])} :
       \E returned \in {cachedParse(zcs, keygen, className, traced.result, DateNow)} :
          /\ zcs' = returned[1]
          /\ keygen' = returned[2]
          /\ fnRet' = returned[3]
          /\ fnCall' = [name |-> "parseClass", className |-> className, warm |-> warm,
                        count |-> CallsMade + 1,
                        calls |-> IF warm THEN <<>> ELSE traced.trace.calls,
                        reports |-> IF warm THEN <<>> ELSE traced.trace.reports]
    /\ UNCHANGED <<now, lruVars, engine, keyOp, keyRet, lastGen, timers, sysOp, sysRet,
                   cleanupCalled, coldParse>>

ThreatNext ==
    \E className \in ThreatClassNames, slow \in BOOLEAN : ParseClassTraced(className, slow)

(***************************************************************************)
(* The public entry points: parseClass and parseClasses                    *)
(* (core/parser/classParser.js) and generateCSS (api/generateCSS.js), the  *)
(* async generateCSSCore behind withGenerationCache of                     *)
(* core/cache/cacheSystem.js.  A call either returns a value or throws; a  *)
(* promise is pending or fulfilled, and the jobs that can still settle it  *)
(* are kept with it.                                                       *)
(***************************************************************************)
Returned(v) == [returned |-> v]
Threw(errorName) == [threw |-> errorName]

IsZyraResult(v) == DOMAIN v = {"success", "data", "error"}

\* The promise of an async function whose body returns v.  A ZyraResult has a
\* method then(fn), so the promise is resolved by calling v.then(resolve, reject):
\* then returns `this` without calling fn when success is false, and calls
\* fn(this.data) otherwise.
PromiseOfReturn(v) ==
    IF IsZyraResult(v)
    THEN IF v.success THEN [promise |-> "fulfilled", value |-> v.data]
         ELSE [promise |-> "pending"]
    ELSE [promise |-> "fulfilled", value |-> v]

validateGenerateInput(input, time) ==
    IF ~Truthy(input) \/ TypeOf(input) # "object"
    THEN ZyraResult_error(ErrorFactory_invalidInput(input, "Input must be an object", time))
    ELSE IF Prop(input, "classes") # Undefined /\ ~IsArray(Prop(input, "classes"))
    THEN ZyraResult_error(ErrorFactory_invalidInput(Prop(input, "classes"),
                                                   "classes must be an array", time))
    ELSE IF Prop(input, "html") # Undefined /\ ~IsArray(Prop(input, "html"))
    THEN ZyraResult_error(ErrorFactory_invalidInput(Prop(input, "html"),
                                                   "html must be an array", time))
    ELSE IF Prop(input, "options") # Undefined /\ TypeOf(Prop(input, "options")) # "object"
    THEN ZyraResult_error(ErrorFactory_invalidInput(Prop(input, "options"),
                                                   "options must be an object", time))
    ELSE ZyraResult_success(input)

\* const { name = default } = input
OrElse(v, default) == IF v = Undefined THEN default ELSE v

\* collectAllClasses(classes, html), for html arrays without a non-blank string:
\* validHTML is empty and nothing is extracted.
collectAllClasses(classes, html) ==
    LET allClasses == IF Truthy(classes) THEN classes.arr ELSE <<>>
    IN  ZyraResult_success(
            [allClasses |-> JSArr(allClasses),
             extractionStats |->
                 [directClasses |-> IF Truthy(classes) THEN Len(classes.arr) ELSE 0,
                  extractedClasses |-> 0,
                  totalClasses |-> Len(allClasses)]])

\* The body of the async generateCSSCore(input): the value it returns, or
\* Suspended when an await in it never resumes.  What `await
\* collectAllClasses(...)` yields is the value its promise is fulfilled with.
Suspended == [suspended |-> TRUE]
generateCSSCore(input, time) ==
    LET given == OrElse(input, JSObj(Undefined, Undefined, Undefined))
        inputValidation == validateGenerateInput(given, time)
        collected == PromiseOfReturn(
                         collectAllClasses(OrElse(Prop(given, "classes"), JSArr(<<>>)),
                                           OrElse(Prop(given, "html"), JSArr(<<>>))))
    IN  IF ~inputValidation.success THEN Returned(inputValidation)
        ELSE IF collected.promise = "pending" THEN Suspended
        ELSE IF ~Truthy(Prop(collected.value, "success")) THEN Returned(collected.value)
        ELSE Returned([reached |-> "Step 2"])

\* generateCSS(input) = cachedGenerate(input) of withGenerationCache in
\* cacheSystem.js: createGenerationKey spreads its first argument, the lookup
\* misses (the cache holds nothing: the promise that the wrapped function
\* returns has no css, so nothing is stored), and the promise is returned.
generateCSS(input, time) ==
    IF ~IsIterable(input) THEN Threw("TypeError")
    ELSE [promise |-> "pending", jobs |-> <<generateCSSCore(input, time)>>]

\* input.trim().split(/\s+/).filter(Boolean)
RECURSIVE SplitOnWhitespace(_)
SplitOnWhitespace(str) ==
    IF str = <<>> THEN <<>>
    ELSE IF Head(str) \in Whitespace THEN SplitOnWhitespace(Tail(str))
    ELSE LET n == CHOOSE k \in 1..Len(str) :
                      /\ \A i \in 1..k : str[i] \notin Whitespace
                      /\ k = Len(str) \/ str[k + 1] \in Whitespace
         IN  <<JSStr(SubSeq(str, 1, n))>> \o SplitOnWhitespace(SubSeq(str, n + 1, Len(str)))

\* The array parseClasses(input) iterates over, or Null when it returns early
ClassesOf(input) ==
    IF IsArray(input) THEN input
    ELSE IF IsString(input) THEN JSArr(SplitOnWhitespace(input.str))
    ELSE Null

Class_p24px == <<"p", "-", "[", "2", "4", "p", "x", "]">>
ApiClassNames ==
    {JSStr(Class_p1), JSStr(Class_p24px), JSStr(Class_expression), JSStr(Token_plain),
     JSStr(<<>>), Undefined, Null, JSNum(42)}
BatchTokens == <<JSStr(Class_p1), JSStr(Class_expression), Null>>
ParseInputs ==
    {JSArr(<<>>)}
      \cup {JSArr(<<BatchTokens[i]>>) : i \in 1..Len(BatchTokens)}
      \cup {JSArr(<<BatchTokens[i], BatchTokens[j]>>) : i, j \in 1..Len(BatchTokens)}
      \cup {JSStr(Class_p1 \o <<" ", " ">> \o Class_expression), JSStr(<<" ">>),
            Undefined, Null, JSNum(42),
            JSObj(JSArr(<<JSStr(Class_p1)>>), Undefined, Undefined)}

\* parseClassCore over the class names of the model and the clock readings.
parseClassCoreApi ==
    [className \in ApiClassNames, time \in SysTimes, slow \in BOOLEAN |->
        parseClassCore(className, time, slow)]

\* The loop of parseClasses from the state `acc`; slows[i] tells whether the
\* regex executions for the i-th class run out of time.
RECURSIVE parseEach(_, _, _, _)
parseEach(acc, classes, slows, time) ==
    IF classes = <<>> THEN acc
    ELSE IF Head(classes) \in acc.seen THEN parseEach(acc, Tail(classes), Tail(slows), time)
    ELSE LET className == Head(classes)
             next(ret) ==
                 [z |-> ret[1], m |-> ret[2],
                  seen |-> acc.seen \cup {className},
                  parsed |-> IF ret[3].success THEN Append(acc.parsed, ret[3].data)
                             ELSE acc.parsed,
                  invalid |-> IF ret[3].success THEN acc.invalid
                              ELSE Append(acc.invalid,
                                          [className |-> className, error |-> ret[3].error,
                                           suggestions |-> ret[3].error.suggestions]),
                  results |-> Append(acc.results, ret[3])]
         IN  parseEach(next(cachedParse(acc.z, acc.m, className,
                                        parseClassCoreApi[className, time, Head(slows)], time)),
                       Tail(classes), Tail(slows), time)

\* The loop of parseClasses if it stopped at the first class that fails
RECURSIVE parseEachUntilFailure(_, _, _, _)
parseEachUntilFailure(acc, classes, slows, time) ==
    IF classes = <<>> \/ acc.invalid # <<>> THEN acc
    ELSE parseEachUntilFailure(parseEach(acc, <<Head(classes)>>, <<Head(slows)>>, time),
                               Tail(classes), Tail(slows), time)

parseClassesUntilFailure(z, m, input, slows, time) ==
    IF ClassesOf(input) = Null
    THEN [z |-> z, m |-> m, results |-> <<>>, parsed |-> <<>>,
          invalid |-> <<ErrorFactory_invalidInput(input, "Input must be array or string", time)>>]
    ELSE parseEachUntilFailure([z |-> z, m |-> m, seen |-> {}, parsed |-> <<>>,
                                invalid |-> <<>>, results |-> <<>>],
                               ClassesOf(input).arr, slows, time)

\* parseClasses(input): the ParseResult (parsed, invalid), the cache system and
\* key generator after the call, and what each call of parseClass returned.
parseClasses(z, m, input, slows, time) ==
    IF ClassesOf(input) = Null
    THEN [z |-> z, m |-> m, results |-> <<>>, parsed |-> <<>>,
          invalid |-> <<ErrorFactory_invalidInput(input, "Input must be array or string", time)>>]
    ELSE parseEach([z |-> z, m |-> m, seen |-> {}, parsed |-> <<>>, invalid |-> <<>>,
                    results |-> <<>>],
                   ClassesOf(input).arr, slows, time)

GenerateInputs ==
    {Undefined, Null, JSNum(42), JSStr(Class_p1), JSStr(<<>>),
     JSObj(JSArr(<<JSStr(Class_p1)>>), Undefined, Undefined),
     JSObj(Undefined, Undefined, Undefined),
     JSObj(JSStr(Class_p1), Undefined, Undefined),
     JSObj(JSArr(<<JSStr(Class_p1)>>), JSStr(<<"<", "p", ">">>), Undefined),
     JSObj(JSArr(<<JSStr(Class_p1)>>), Undefined, JSNum(42)),
     JSArr(<<>>), JSArr(<<JSStr(Class_p1)>>)}

\* The caller awaits each call: it makes no call while a promise it awaits is pending.
Awaiting ==
    /\ fnCall.name = "generateCSS"
    /\ "promise" \in DOMAIN fnRet
    /\ fnRet.promise = "pending"

ApiCall(name, input, outcome) ==
    /\ ~Awaiting
    /\ CallsMade < ApiMaxCalls
    /\ fnCall' = [name |-> name, input |-> input, count |-> CallsMade + 1]
    /\ fnRet' = outcome
    /\ UNCHANGED <<now, lruVars, engine, keyOp, keyRet, lastGen, timers, sysOp, sysRet,
                   cleanupCalled, coldParse>>

ApiParseClass(className, slow) ==
    \E ret \in {cachedParse(zcs, keygen, className,
                             parseClassCoreApi[className, DateNow, slow], DateNow)} :
        /\ ApiCall("parseClass", className, Returned(ret[3]))
        /\ zcs' = ret[1]
        /\ keygen' = ret[2]

ApiParseClasses(input, slows) ==
    \E ret \in {parseClasses(zcs, keygen, input, slows, DateNow)} :
        /\ ApiCall("parseClasses", input,
                   [returned |-> [parsed |-> ret.parsed, invalid |-> ret.invalid],
                    results |-> ret.results])
        /\ zcs' = ret.z
        /\ keygen' = ret.m

GenerateCSS(input) ==
    /\ ApiCall("generateCSS", input, generateCSS(input, DateNow))
    /\ UNCHANGED <<zcs, keygen>>

\* The job that runs once the body of generateCSSCore has returned: it
\* resolves the promise of the call with the returned value.
SettleGenerateCSS ==
    /\ Awaiting
    /\ fnRet.jobs # <<>>
    /\ \E body \in {Head(fnRet.jobs)} :
          fnRet' = IF body = Suspended THEN [promise |-> "pending", jobs |-> <<>>]
                   ELSE [jobs |-> <<>>] @@ PromiseOfReturn(body.returned)
    /\ UNCHANGED <<now, lruVars, engine, keyVars, sysVars, fnCall>>

SlowsFor(input) ==
    [1..(IF ClassesOf(input) = Null THEN 0 ELSE Len(ClassesOf(input).arr)) -> BOOLEAN]

ApiNext ==
    \/ \E className \in ApiClassNames, slow \in BOOLEAN : ApiParseClass(className, slow)
    \/ \E input \in ParseInputs : \E slows \in SlowsFor(input) : ApiParseClasses(input, slows)
    \/ \E input \in GenerateInputs : GenerateCSS(input)
    \/ SettleGenerateCSS

(***************************************************************************)
(* core/validators/valueValidator: validateValue for the colour            *)
(* properties, with isSafeInput, normalizeCSSValue and isCSSColor.  The    *)
(* timestamp of a validation result is left out.  A branch that no value   *)
(* of the model takes returns NotModelled.                                 *)
(***************************************************************************)
createValidationResult(isValid, reason, value, metadata) ==
    [isValid |-> isValid, reason |-> reason, value |-> value, metadata |-> metadata]
NoMetadata == [type |-> "none"]
NotModelled(branch) ==
    createValidationResult(FALSE, "not modelled", branch, [type |-> "not-modelled"])

HighPriorityPatterns ==
    SelectSeq(DANGEROUS_PATTERNS, LAMBDA p : p.riskLevel \in {"critical", "high"})

\* isSafeInput(input) on a string
isSafeInput(input, slow) ==
    \A i \in 1..Len(HighPriorityPatterns) :
        LET testResult == syncSafeRegexTest(HighPriorityPatterns[i].regex, input,
                                            SafeInputMaxLength, slow)
        IN  ~(Truthy(testResult.error) \/ testResult.timedOut) /\ ~testResult.result

HexDigits == Digits \cup {"a", "b", "c", "d", "e", "f"}
ZeroUnits == <<<<"p", "x">>, <<"e", "m">>, <<"r", "e", "m">>, <<"%">>, <<"v", "h">>, <<"v", "w">>, <<"i", "n">>, <<"c", "m">>, <<"m", "m">>, <<"p", "t">>, <<"p", "c">>>>
AnyOf(lits) == Alt([i \in 1..Len(lits) |-> Lit(lits[i])])

\* str.replace(/\.0+(?=\D|$)/g, "")
RECURSIVE RemoveDecimalZeros(_)
RemoveDecimalZeros(str) ==
    IF str = <<>> THEN <<>>
    ELSE IF Head(str) = "."
    THEN LET zeros == CHOOSE n \in 0..(Len(str) - 1) :
                          /\ \A i \in 2..(n + 1) : str[i] = "0"
                          /\ n + 1 = Len(str) \/ str[n + 2] # "0"
         IN  IF zeros >= 1 /\ (zeros + 1 = Len(str) \/ str[zeros + 2] \notin Digits)
             THEN RemoveDecimalZeros(SubSeq(str, zeros + 2, Len(str)))
             ELSE <<".">> \o RemoveDecimalZeros(Tail(str))
    ELSE <<Head(str)>> \o RemoveDecimalZeros(Tail(str))

\* A variant that expands a 3-digit hex colour as it was written.
normalizeCSSValueKeepingCase(value) ==
    LET trimmed == Trim(value)
        hex == IF ~StartsWith(trimmed, <<"#">>) THEN trimmed
               ELSE IF Len(trimmed) = 4
               THEN <<"#", trimmed[2], trimmed[2], trimmed[3], trimmed[3], trimmed[4], trimmed[4]>>
               ELSE ToLowerCase(trimmed)
        zero == IF FullMatch(Sequence(<<Plus(OneOf({"0"})), AnyOf(ZeroUnits)>>), hex)
                THEN <<"0">> ELSE hex
    IN  RemoveDecimalZeros(zero)

normalizeCSSValue(value) ==
    LET trimmed == Trim(value)
        lowered == ToLowerCase(trimmed)
        hex == IF ~StartsWith(trimmed, <<"#">>) THEN trimmed
               ELSE IF Len(lowered) = 4
               THEN <<"#", lowered[2], lowered[2], lowered[3], lowered[3], lowered[4], lowered[4]>>
               ELSE lowered
        zero == IF FullMatch(Sequence(<<Plus(OneOf({"0"})), AnyOf(ZeroUnits)>>), hex)
                THEN <<"0">> ELSE hex
    IN  RemoveDecimalZeros(zero)

isGlobalKeyword(value) ==
    ToLowerCase(value) \in {<<"i", "n", "h", "e", "r", "i", "t">>, <<"i", "n", "i", "t", "i", "a", "l">>, <<"u", "n", "s", "e", "t">>, <<"r", "e", "v", "e", "r", "t">>, <<"r", "e", "v", "e", "r", "t", "-", "l", "a", "y", "e", "r">>}

\* Number(text) for a run of digits
RECURSIVE NumberOf(_)
NumberOf(digits) ==
    IF digits = <<>> THEN 0
    ELSE 10 * NumberOf(SubSeq(digits, 1, Len(digits) - 1))
           + (CHOOSE d \in 0..9 : DecimalDigits(d) = <<digits[Len(digits)]>>)

\* PROPERTY_VALIDATION_RULES[property] || null, for the colour and the length
\* properties; an absent rule reads as Undefined
ColorKeywords == {<<"c", "u", "r", "r", "e", "n", "t", "c", "o", "l", "o", "r">>, <<"t", "r", "a", "n", "s", "p", "a", "r", "e", "n", "t">>}
SizeKeywords == {<<"a", "u", "t", "o">>, <<"m", "i", "n", "-", "c", "o", "n", "t", "e", "n", "t">>, <<"m", "a", "x", "-", "c", "o", "n", "t", "e", "n", "t">>, <<"f", "i", "t", "-", "c", "o", "n", "t", "e", "n", "t">>}
FontSizeKeywords ==
    {<<"x", "x", "-", "s", "m", "a", "l", "l">>, <<"x", "-", "s", "m", "a", "l", "l">>, <<"s", "m", "a", "l", "l">>, <<"m", "e", "d", "i", "u", "m">>, <<"l", "a", "r", "g", "e">>, <<"x", "-", "l", "a", "r", "g", "e">>, <<"x", "x", "-", "l", "a", "r", "g", "e">>}
LengthRules(min, allowNegative, allowKeywords) ==
    [type |-> "length", min |-> min, max |-> Undefined, allowNegative |-> allowNegative,
     allowKeywords |-> allowKeywords]
getPropertyRules(property) ==
    IF property \in {<<"c", "o", "l", "o", "r">>, <<"b", "a", "c", "k", "g", "r", "o", "u", "n", "d", "-", "c", "o", "l", "o", "r">>, <<"b", "o", "r", "d", "e", "r", "-", "c", "o", "l", "o", "r">>}
    THEN [type |-> "color", allowKeywords |-> ColorKeywords]
    ELSE IF property \in {<<"p", "a", "d", "d", "i", "n", "g">>, <<"b", "o", "r", "d", "e", "r", "-", "r", "a", "d", "i", "u", "s">>}
    THEN LengthRules(JSNum(MIN_ZERO), FALSE, {})
    ELSE IF property = <<"m", "a", "r", "g", "i", "n">> THEN LengthRules(Null, TRUE, {})
    ELSE IF property \in {<<"w", "i", "d", "t", "h">>, <<"h", "e", "i", "g", "h", "t">>}
    THEN LengthRules(JSNum(MIN_ZERO), FALSE, SizeKeywords)
    ELSE IF property = <<"f", "o", "n", "t", "-", "s", "i", "z", "e">> THEN LengthRules(JSNum(MIN_ZERO), FALSE, FontSizeKeywords)
    ELSE Null

\* isCSSLength(value) of cssUtils.js on a string
UtilityLengthUnits ==
    <<<<"p", "x">>, <<"e", "m">>, <<"r", "e", "m">>, <<"v", "h">>, <<"v", "w">>, <<"%">>, <<"i", "n">>, <<"c", "m">>, <<"m", "m">>, <<"p", "t">>, <<"p", "c">>,
      <<"e", "x">>, <<"c", "h">>, <<"v", "m", "i", "n">>, <<"v", "m", "a", "x">>, <<"f", "r">>>>
isCSSLength(value) ==
    \/ FullMatch(Sequence(<<Optional(Lit(<<"-">>)), Plus(OneOf(Digits \cup {"."})),
                            AnyOf(UtilityLengthUnits)>>),
                 Trim(value))
    \/ Trim(value) = <<"0">>

\* CSS_UNITS.LENGTH of the unit table that has the categories isValidLengthUnit reads
CSS_UNITS_LENGTH ==
    {<<"p", "x">>, <<"i", "n">>, <<"c", "m">>, <<"m", "m">>, <<"p", "t">>, <<"p", "c">>, <<"e", "m">>, <<"r", "e", "m">>, <<"e", "x">>, <<"c", "h">>, <<"l", "h">>,
     <<"r", "l", "h">>, <<"v", "w">>, <<"v", "h">>, <<"v", "m", "i", "n">>, <<"v", "m", "a", "x">>, <<"v", "i">>, <<"v", "b">>, <<"%">>, <<"f", "r">>}
isValidLengthUnit(unit) == ToLowerCase(unit) \in CSS_UNITS_LENGTH

\* trimmed.match(/^([+-]?\d*\.?\d+)([a-zA-Z%]+)$/): the two groups, or Null.
\* The unit is the run of letters and % at the end, as the number ends in a digit.
UnitLength(str) ==
    CHOOSE n \in 0..Len(str) :
        /\ \A i \in (Len(str) - n + 1)..Len(str) : str[i] \in Letters \cup {"%"}
        /\ n = Len(str) \/ str[Len(str) - n] \notin Letters \cup {"%"}
LengthMatch(trimmed) ==
    LET numStr == SubSeq(trimmed, 1, Len(trimmed) - UnitLength(trimmed))
        unit == SubSeq(trimmed, Len(trimmed) - UnitLength(trimmed) + 1, Len(trimmed))
    IN  IF unit # <<>>
           /\ FullMatch(Sequence(<<Optional(OneOf({"+", "-"})), Star(OneOf(Digits)),
                                   Optional(Lit(<<".">>)), DigitsPattern>>),
                        numStr)
        THEN [numStr |-> numStr, unit |-> unit]
        ELSE Null

\* parseFloat(numStr) of a signed whole numeral (the numerals of the model
\* have no fraction)
ParseFloat(numStr) ==
    IF Head(numStr) = "-" THEN 0 - NumberOf(Tail(numStr))
    ELSE IF Head(numStr) = "+" THEN NumberOf(Tail(numStr))
    ELSE NumberOf(numStr)

IsSet(limit) == limit # Null /\ limit # Undefined

validateLengthValue(value, rules) ==
    LET trimmed == Trim(value)
        checked(lengthMatch) ==
            IF lengthMatch = Null
            THEN createValidationResult(FALSE, "Invalid value for length property", value,
                                        NoMetadata)
            ELSE IF ~isValidLengthUnit(lengthMatch.unit)
            THEN createValidationResult(FALSE, "Invalid length unit", value, NoMetadata)
            ELSE IF IsSet(rules.min) /\ ParseFloat(lengthMatch.numStr) < rules.min.num
            THEN createValidationResult(FALSE, "Value is below minimum", value, NoMetadata)
            ELSE IF IsSet(rules.max) /\ ParseFloat(lengthMatch.numStr) > rules.max.num
            THEN createValidationResult(FALSE, "Value is above maximum", value, NoMetadata)
            ELSE IF ~rules.allowNegative /\ ParseFloat(lengthMatch.numStr) < 0
            THEN createValidationResult(FALSE, "Negative values not allowed", value, NoMetadata)
            ELSE createValidationResult(TRUE, Null, value, [type |-> "length"])
    IN  IF StartsWith(trimmed, <<"c", "a", "l", "c", "(">>) THEN NotModelled("validateCalcFunction")
        ELSE IF trimmed \in rules.allowKeywords
        THEN createValidationResult(TRUE, Null, value, [type |-> "keyword"])
        ELSE IF trimmed = <<"0">>
        THEN createValidationResult(TRUE, Null, value, [type |-> "length"])
        ELSE checked(LengthMatch(trimmed))

ColorFunction(name) ==
    Sequence(<<Lit(name), Optional(Lit(<<"a">>)), Lit(<<"(">>), Plus(NoneOf({")"})), Lit(<<")">>)>>)
UtilityNamedColors ==
    {<<"t", "r", "a", "n", "s", "p", "a", "r", "e", "n", "t">>, <<"c", "u", "r", "r", "e", "n", "t", "c", "o", "l", "o", "r">>, <<"i", "n", "h", "e", "r", "i", "t">>, <<"i", "n", "i", "t", "i", "a", "l">>, <<"u", "n", "s", "e", "t">>, <<"b", "l", "a", "c", "k">>,
     <<"w", "h", "i", "t", "e">>, <<"r", "e", "d">>, <<"g", "r", "e", "e", "n">>, <<"b", "l", "u", "e">>, <<"y", "e", "l", "l", "o", "w">>, <<"o", "r", "a", "n", "g", "e">>, <<"p", "u", "r", "p", "l", "e">>, <<"p", "i", "n", "k">>,
     <<"b", "r", "o", "w", "n">>, <<"g", "r", "a", "y">>, <<"g", "r", "e", "y">>}

\* isCSSColor(value) of cssUtils.js on a string
isCSSColor(value) ==
    LET trimmed == Trim(value)
        lowered == ToLowerCase(trimmed)
        hexLength == Len(lowered) - 1
    IN  \/ /\ StartsWith(lowered, <<"#">>)
           /\ hexLength >= 3 /\ hexLength <= 8
           /\ \A i \in 2..Len(lowered) : lowered[i] \in HexDigits
        \/ FullMatch(ColorFunction(<<"r", "g", "b">>), lowered)
        \/ FullMatch(ColorFunction(<<"h", "s", "l">>), lowered)
        \/ lowered \in UtilityNamedColors

\* The capture groups of a match of one of the colour patterns: the numbers of
\* the value in their order (the numbers of the model's values have no fraction).
RECURSIVE NumberTokens(_)
NumberTokens(str) ==
    IF str = <<>> THEN <<>>
    ELSE IF Head(str) \notin Digits THEN NumberTokens(Tail(str))
    ELSE LET n == CHOOSE k \in 1..Len(str) :
                      /\ \A i \in 1..k : str[i] \in Digits
                      /\ k = Len(str) \/ str[k + 1] \notin Digits
         IN  <<SubSeq(str, 1, n)>> \o NumberTokens(SubSeq(str, n + 1, Len(str)))

Gap == Plus(OneOf(Whitespace))
Comma == Sequence(<<Spaces, Lit(<<",">>), Spaces>>)
Percent(r) == Sequence(<<r, Lit(<<"%">>)>>)
ModernAlpha ==
    Optional(Sequence(<<Lit(<<"/">>), Spaces, Alt(<<NumberPattern, Percent(NumberPattern)>>)>>))
LegacyAlpha == Optional(Sequence(<<Lit(<<",">>), Spaces, NumberPattern>>))
ColorPattern(name, first, second, third, separator, alpha) ==
    Sequence(<<Lit(name), Optional(Lit(<<"a">>)), Lit(<<"(">>), Spaces, first, separator,
               second, separator, third, Spaces, alpha, Spaces, Lit(<<")">>)>>)

\* value.match(modernPattern) || value.match(legacyPattern) of validateRGBColor
RgbMatch(value) ==
    \/ FullMatch(ColorPattern(<<"r", "g", "b">>, NumberPattern, NumberPattern, NumberPattern,
                              Gap, ModernAlpha), value)
    \/ FullMatch(ColorPattern(<<"r", "g", "b">>, NumberPattern, NumberPattern, NumberPattern,
                              Comma, LegacyAlpha), value)
HslMatch(value) ==
    \/ FullMatch(ColorPattern(<<"h", "s", "l">>, NumberPattern, Percent(NumberPattern),
                              Percent(NumberPattern), Gap, ModernAlpha), value)
    \/ FullMatch(ColorPattern(<<"h", "s", "l">>, NumberPattern, Percent(NumberPattern),
                              Percent(NumberPattern), Comma, LegacyAlpha), value)

validateHexColor(value) ==
    IF /\ Len(value) - 1 \in {3, 6, 8}
       /\ \A i \in 2..Len(value) : ToLowerChar(value[i]) \in HexDigits
    THEN createValidationResult(TRUE, Null, value, [type |-> "hex-color"])
    ELSE createValidationResult(FALSE, "Invalid hex color format", value, NoMetadata)

validateRGBColor(value) ==
    LET numbers == [i \in 1..Len(NumberTokens(value)) |-> NumberOf(NumberTokens(value)[i])]
    IN  IF ~RgbMatch(value)
        THEN createValidationResult(FALSE, "Invalid RGB color syntax", value, NoMetadata)
        ELSE IF \E i \in 1..3 : numbers[i] < RGB_MIN \/ numbers[i] > RGB_MAX
        THEN createValidationResult(FALSE, "RGB channel value out of range", value, NoMetadata)
        ELSE IF Len(numbers) > 3 /\ (numbers[4] < 0 \/ numbers[4] > 1)
        THEN createValidationResult(FALSE, "Alpha value out of range", value, NoMetadata)
        ELSE createValidationResult(TRUE, Null, value,
                                    [type |-> "rgb-color", r |-> numbers[1], g |-> numbers[2],
                                     b |-> numbers[3], hasAlpha |-> Len(numbers) > 3])

validateHSLColor(value) ==
    LET numbers == [i \in 1..Len(NumberTokens(value)) |-> NumberOf(NumberTokens(value)[i])]
    IN  IF ~HslMatch(value)
        THEN createValidationResult(FALSE, "Invalid HSL color syntax", value, NoMetadata)
        ELSE IF numbers[1] < HSL_HUE_MIN \/ numbers[1] > HSL_HUE_MAX
        THEN createValidationResult(FALSE, "Hue value out of range", value, NoMetadata)
        ELSE IF numbers[2] < HSL_PERCENTAGE_MIN \/ numbers[2] > HSL_PERCENTAGE_MAX
        THEN createValidationResult(FALSE, "Saturation value out of range", value, NoMetadata)
        ELSE IF numbers[3] < HSL_PERCENTAGE_MIN \/ numbers[3] > HSL_PERCENTAGE_MAX
        THEN createValidationResult(FALSE, "Lightness value out of range", value, NoMetadata)
        ELSE IF Len(numbers) > 3 /\ (numbers[4] < ALPHA_MIN \/ numbers[4] > ALPHA_MAX)
        THEN createValidationResult(FALSE, "Alpha value out of range", value, NoMetadata)
        ELSE createValidationResult(TRUE, Null, value,
                                    [type |-> "hsl-color", h |-> numbers[1], s |-> numbers[2],
                                     l |-> numbers[3], hasAlpha |-> Len(numbers) > 3])

\* isNamedColor(value), for the names among the values of the model
isNamedColor(value) == value \in {<<"r", "e", "d">>, <<"t", "e", "a", "l">>}

validateColorValue(value, rules) ==
    LET trimmed == ToLowerCase(Trim(value))
    IN  IF trimmed \in rules.allowKeywords
        THEN createValidationResult(TRUE, Null, value, [type |-> "color-keyword"])
        ELSE IF isNamedColor(trimmed)
        THEN createValidationResult(TRUE, Null, value, [type |-> "named-color"])
        ELSE IF StartsWith(trimmed, <<"#">>) THEN validateHexColor(trimmed)
        ELSE IF StartsWith(trimmed, <<"r", "g", "b">>) THEN validateRGBColor(trimmed)
        ELSE IF StartsWith(trimmed, <<"h", "s", "l">>) THEN validateHSLColor(trimmed)
        ELSE createValidationResult(FALSE, "Invalid color format", value, NoMetadata)

\* validateValue(value, property) with the default options
validateValue(value, property, slow) ==
    IF ~Truthy(value) \/ ~IsString(value)
    THEN createValidationResult(FALSE, "Value must be a non-empty string", value, NoMetadata)
    ELSE IF ~isSafeInput(value.str, slow)
    THEN createValidationResult(FALSE, "Value contains unsafe patterns", value.str, NoMetadata)
    ELSE LET normalizedValue == normalizeCSSValue(value.str)
             rules == getPropertyRules(property)
         IN  IF StartsWith(normalizedValue, <<"v", "a", "r", "(">>) THEN NotModelled("validateCustomProperty")
             ELSE IF isGlobalKeyword(normalizedValue)
             THEN createValidationResult(TRUE, Null, normalizedValue, [type |-> "global-keyword"])
             ELSE IF ~Truthy(rules) THEN NotModelled("validateUnknownProperty")
             ELSE IF rules.type = "color" /\ isCSSColor(normalizedValue)
             THEN createValidationResult(TRUE, Null, normalizedValue,
                                         [type |-> "color", utilityValidated |-> TRUE])
             ELSE IF rules.type = "length" /\ isCSSLength(normalizedValue)
             THEN createValidationResult(TRUE, Null, normalizedValue,
                                         [type |-> "length", utilityValidated |-> TRUE])
             ELSE IF rules.type = "length" THEN validateLengthValue(normalizedValue, rules)
             ELSE IF rules.type = "color" THEN validateColorValue(normalizedValue, rules)
             ELSE NotModelled(rules.type)

(***************************************************************************)
(* validateValue applied to signed lengths and to some other values, for   *)
(* properties that allow negative lengths and properties that do not.      *)
(***************************************************************************)
LengthProperties == {<<"p", "a", "d", "d", "i", "n", "g">>, <<"m", "a", "r", "g", "i", "n">>, <<"w", "i", "d", "t", "h">>, <<"f", "o", "n", "t", "-", "s", "i", "z", "e">>}
LengthSigns == {<<>>, <<"-">>, <<"+">>}
LengthNumbers == {0, 10}
LengthUnits == {<<"p", "x">>, <<"%">>, <<"r", "e", "m">>, <<"P", "X">>, <<"q">>}
LengthInputs ==
    {[signed |-> TRUE, sign |-> sign, number |-> n, unit |-> unit,
      text |-> sign \o DecimalDigits(n) \o unit] :
        sign \in LengthSigns, n \in LengthNumbers, unit \in LengthUnits}
      \cup {[signed |-> FALSE, sign |-> <<>>, number |-> 0, unit |-> <<>>, text |-> t] :
               t \in {<<"0">>, <<"a", "u", "t", "o">>, <<"c", "a", "l", "c", "(", "1", "p", "x", ")">>, <<"b", "o", "g", "u", "s">>, <<" ", "-", "1", "0", "p", "x", " ">>}}

\* One call per behaviour: the function keeps no state between calls.
ValidateLength(length, property, slow) ==
    /\ fnCall.name = "none"
    /\ fnCall' = [name |-> "validateValue", value |-> JSStr(length.text),
                  property |-> property, slow |-> slow, length |-> length]
    /\ fnRet' = validateValue(JSStr(length.text), property, slow)
    /\ UNCHANGED <<now, lruVars, engine, keyVars, sysVars>>

LengthNext ==
    \E length \in LengthInputs, property \in LengthProperties, slow \in BOOLEAN :
        ValidateLength(length, property, slow)

(***************************************************************************)
(* validateValue applied to rgb() and hsl() values whose components lie on *)
(* and beyond the limits, and to some other colours.                       *)
(***************************************************************************)
ColorProperties == {<<"c", "o", "l", "o", "r">>, <<"b", "a", "c", "k", "g", "r", "o", "u", "n", "d", "-", "c", "o", "l", "o", "r">>}
ChannelInputs == {0, 255, 256}
HueInputs == {0, 360, 361, 400}
PercentageInputs == {50, 100, 101}

Joined(parts, separator) == ArrayJoin(parts, separator)
RgbText(channels, separator) ==
    <<"r", "g", "b", "(">> \o Joined([i \in 1..3 |-> DecimalDigits(channels[i])], separator) \o <<")">>
HslText(parts, separator) ==
    <<"h", "s", "l", "(">> \o Joined(<<DecimalDigits(parts[1]), DecimalDigits(parts[2]) \o <<"%">>,
                          DecimalDigits(parts[3]) \o <<"%">> >>, separator) \o <<")">>
Separators == {<<",">>, <<",", " ">>, <<" ">>}
ColorInputs ==
    {[fn |-> "rgb", parts |-> <<r, g, b>>, text |-> RgbText(<<r, g, b>>, sep)] :
        r \in ChannelInputs, g \in ChannelInputs, b \in ChannelInputs, sep \in Separators}
      \cup {[fn |-> "hsl", parts |-> <<h, s, l>>, text |-> HslText(<<h, s, l>>, sep)] :
               h \in HueInputs, s \in PercentageInputs, l \in PercentageInputs,
               sep \in Separators}
      \cup {[fn |-> "other", parts |-> <<>>, text |-> t] :
               t \in {<<"r", "e", "d">>, <<"t", "e", "a", "l">>, <<"#", "F", "F", "F">>, <<"#", "g", "g", "g">>, <<"r", "g", "b", "(", "1", ",", "2">>, <<"i", "n", "h", "e", "r", "i", "t">>,
                      <<"t", "r", "a", "n", "s", "p", "a", "r", "e", "n", "t">>, <<"b", "o", "g", "u", "s">>}}

\* One call per behaviour: the function keeps no state between calls.
ValidateValue(color, property, slow) ==
    /\ fnCall.name = "none"
    /\ fnCall' = [name |-> "validateValue", value |-> JSStr(color.text), property |-> property,
                  slow |-> slow, color |-> color]
    /\ fnRet' = validateValue(JSStr(color.text), property, slow)
    /\ UNCHANGED <<now, lruVars, engine, keyVars, sysVars>>

ValueNext ==
    \E color \in ColorInputs, property \in ColorProperties, slow \in BOOLEAN :
        ValidateValue(color, property, slow)

(***************************************************************************)
(* Multi-value syntax.  parseBracketSyntax calls the parseCSSSyntax of     *)
(* core/parser/valueParser.js, modelled above.  A second value parser      *)
(* (unnamed/part_006) checks the separators first; parseShorthandValue of  *)
(* core/utils/constants.js expands a shorthand value to its sides.         *)
(***************************************************************************)
\* The loop of isValidMultiValueSyntax: st is [parenDepth, hasCommas, rejected]
RECURSIVE SeparatorScan(_, _)
SeparatorScan(rest, st) ==
    IF rest = <<>> \/ st.rejected THEN st
    ELSE LET char == Head(rest)
         IN  SeparatorScan(Tail(rest),
                 IF char = "(" THEN [st EXCEPT !.parenDepth = @ + 1]
                 ELSE IF char = ")" THEN [st EXCEPT !.parenDepth = @ - 1]
                 ELSE IF st.parenDepth = 0 /\ char = "," THEN [st EXCEPT !.hasCommas = TRUE]
                 ELSE IF st.parenDepth = 0 /\ char \in {"_", "|", ";"}
                 THEN [st EXCEPT !.rejected = TRUE]
                 ELSE st)

\* str.split(/\s+/).filter((p) => p.length > 0)
SpaceParts(str) ==
    [i \in 1..Len(SplitOnWhitespace(str)) |-> SplitOnWhitespace(str)[i].str]

isValidMultiValueSyntax(value) ==
    LET st == SeparatorScan(value, [parenDepth |-> 0, hasCommas |-> FALSE, rejected |-> FALSE])
        commaParts == smartCommaSplit(value)
    IN  IF containsCSSFunction(value) THEN TRUE
        ELSE IF st.rejected THEN FALSE
        ELSE IF st.hasCommas
        THEN Len(commaParts) > 1
                => \A i \in 1..Len(commaParts) :
                      Len(SpaceParts(Trim(commaParts[i]))) > 1
                          => containsCSSFunction(Trim(commaParts[i]))
        ELSE Len(SpaceParts(value)) <= 1

\* The position at which the parenthesis opened at position from is closed, or 0
RECURSIVE ClosingParen(_, _, _)
ClosingParen(value, i, parenCount) ==
    IF i > Len(value) THEN 0
    ELSE LET count == IF value[i] = "(" THEN parenCount + 1
                      ELSE IF value[i] = ")" THEN parenCount - 1 ELSE parenCount
         IN  IF count = 0 THEN i ELSE ClosingParen(value, i + 1, count)

isSingleCSSFunction(value) ==
    \E k \in 1..Len(cssFunctions) :
        /\ StartsWith(value, cssFunctions[k] \o <<"(">>)
        /\ \A j \in 1..(k - 1) :
              StartsWith(value, cssFunctions[j] \o <<"(">>)
                  => ClosingParen(value, Len(cssFunctions[j]) + 1, 0) = 0
        /\ LET close == ClosingParen(value, Len(cssFunctions[k]) + 1, 0)
           IN  close > 0 /\ Trim(SubSeq(value, close + 1, Len(value))) = <<>>

\* parseCSSSyntax(cssValue) of unnamed/part_006 on a string
parseCSSSyntaxWithSeparatorCheck(cssValue, slow) ==
    IF cssValue = <<>> THEN Null
    ELSE IF detectDangerousPatterns(cssValue, slow).isDangerous THEN Null
    ELSE IF ~isValidMultiValueSyntax(cssValue) THEN Null
    ELSE IF isSingleCSSFunction(cssValue)
    THEN [cssValue |-> Trim(cssValue), values |-> <<Trim(cssValue)>>, isFunction |-> TRUE]
    ELSE LET values == smartCommaSplit(cssValue)
             trimmedValues == [i \in 1..Len(values) |-> Trim(values[i])]
         IN  IF Len(values) = 1
             THEN [cssValue |-> Trim(values[1]), values |-> values, isFunction |-> FALSE]
             ELSE [cssValue |-> ArrayJoin(trimmedValues, <<" ">>), values |-> trimmedValues,
                   isFunction |-> FALSE]

\* arr.slice(0, end)
SliceTo(arr, end) == SubSeq(arr, 1, IF end < Len(arr) THEN end ELSE Len(arr))

\* parseShorthandValue(value, expectedParts) on a string
parseShorthandValue(value, expectedParts) ==
    LET parts == IF Trim(value) = <<>> THEN <<<<>>>> ELSE SpaceParts(Trim(value))
    IN  CASE Len(parts) = 1 -> [i \in 1..expectedParts |-> parts[1]]
          [] Len(parts) = 2 -> IF expectedParts = 4
                               THEN <<parts[1], parts[2], parts[1], parts[2]>>
                               ELSE SliceTo(parts, expectedParts)
          [] Len(parts) = 3 -> IF expectedParts = 4
                               THEN <<parts[1], parts[2], parts[3], parts[2]>>
                               ELSE SliceTo(parts, expectedParts)
          [] OTHER -> SliceTo(parts, expectedParts)

(***************************************************************************)
(* The parsers applied to values of one to three lengths, separated by a   *)
(* space or by a comma, and to tokens that carry such values.              *)
(***************************************************************************)
ShorthandLengths == {<<"1", "0", "p", "x">>, <<"2", "0", "p", "x">>, <<"0">>}
ShorthandSeparators == {<<" ">>, <<",">>}
ShorthandValues ==
    ShorthandLengths
      \cup {a \o sep \o b : a \in ShorthandLengths, b \in ShorthandLengths,
                             sep \in ShorthandSeparators}
      \cup {a \o sep \o b \o sep \o c : a \in ShorthandLengths, b \in ShorthandLengths,
                                          c \in ShorthandLengths, sep \in ShorthandSeparators}
      \cup {<<"1", "0", "p", "x", "_", "2", "0", "p", "x">>, <<"c", "a", "l", "c", "(", "1", "0", "p", "x", " ", "+", " ", "2", "0", "p", "x", ")">>, <<"1", "0", "p", "x", " ", "2", "0", "p", "x", " ", "1", "0", "p", "x", " ", "2", "0", "p", "x", " ", "0">>, <<" ">>}
ShorthandPrefixes == {<<"m">>, <<"p">>, <<"q">>}
BracketToken(prefix, value) == prefix \o <<"-", "[">> \o value \o <<"]">>
Class_m10px20px == BracketToken(<<"m">>, <<"1", "0", "p", "x", " ", "2", "0", "p", "x">>)
ShorthandTokens ==
    {BracketToken(<<"m">>, value) :
        value \in {v \in ShorthandValues : Len(v) <= Len(<<"1", "0", "p", "x", " ", "2", "0", "p", "x">>)}}
ExpectedParts == {2, 4}

\* One call per behaviour, on the caches as they are after construction.
ShorthandCall(name, input, outcome) ==
    /\ fnCall.name = "none"
    /\ fnCall' = [name |-> name, input |-> input]
    /\ fnRet' = Returned(outcome)
    /\ UNCHANGED <<now, lruVars, engine, keyOp, keyRet, lastGen, timers, sysOp, sysRet,
                   cleanupCalled, coldParse>>

ParseShorthandToken(className, slow) ==
    \E ret \in {cachedParse(zcs, keygen, JSStr(className),
                             parseClassCore(JSStr(className), DateNow, slow), DateNow)} :
        /\ ShorthandCall("parseClass", JSStr(className), ret[3])
        /\ zcs' = ret[1]
        /\ keygen' = ret[2]

ParseBracketSyntax(prefix, value) ==
    /\ ShorthandCall("parseBracketSyntax", [prefix |-> prefix, value |-> value],
                     parseBracketSyntax(prefix, value, DateNow))
    /\ UNCHANGED <<zcs, keygen>>

ParseCSSSyntaxWithSeparatorCheck(value, slow) ==
    /\ ShorthandCall("parseCSSSyntax", [value |-> value, slow |-> slow],
                     parseCSSSyntaxWithSeparatorCheck(value, slow))
    /\ UNCHANGED <<zcs, keygen>>

ParseShorthandValue(value, expectedParts) ==
    /\ ShorthandCall("parseShorthandValue", [value |-> value, expectedParts |-> expectedParts],
                     parseShorthandValue(value, expectedParts))
    /\ UNCHANGED <<zcs, keygen>>

ShorthandNext ==
    \/ \E className \in ShorthandTokens, slow \in BOOLEAN : ParseShorthandToken(className, slow)
    \/ \E prefix \in ShorthandPrefixes, value \in ShorthandValues :
          ParseBracketSyntax(prefix, value)
    \/ \E value \in ShorthandValues, slow \in BOOLEAN :
          ParseCSSSyntaxWithSeparatorCheck(value, slow)
    \/ \E value \in ShorthandValues, expectedParts \in ExpectedParts :
          ParseShorthandValue(value, expectedParts)

(***************************************************************************)
(* core/generator: groupIdenticalRules.  The Map of the function is the    *)
(* sequence of its values in insertion order.                              *)
(***************************************************************************)
NewGroup(rule) ==
    [selectors |-> <<rule.selector>>,
     declarations |-> rule.declarations,
     declarationString |-> rule.declarationString,
     classNames |-> <<rule.className>>]

\* A variant that extends a group only when it is the one created last.
RECURSIVE GroupAdjacentFrom(_, _)
GroupAdjacentFrom(rest, grouped) ==
    IF rest = <<>> THEN grouped
    ELSE LET rule == Head(rest)
             last == Len(grouped)
         IN  IF last > 0 /\ grouped[last].declarationString = rule.declarationString
             THEN GroupAdjacentFrom(Tail(rest),
                      [grouped EXCEPT ![last].selectors = Append(@, rule.selector),
                                      ![last].classNames = Append(@, rule.className)])
             ELSE GroupAdjacentFrom(Tail(rest), Append(grouped, NewGroup(rule)))

\* The loop of groupIdenticalRules over the rules not yet read
RECURSIVE GroupFrom(_, _)
GroupFrom(rest, grouped) ==
    IF rest = <<>> THEN grouped
    ELSE LET rule == Head(rest)
             key == rule.declarationString
         IN  IF \E k \in 1..Len(grouped) : grouped[k].declarationString = key
             THEN LET k == CHOOSE k \in 1..Len(grouped) : grouped[k].declarationString = key
                  IN  GroupFrom(Tail(rest),
                          [grouped EXCEPT ![k].selectors = Append(@, rule.selector),
                                          ![k].classNames = Append(@, rule.className)])
             ELSE GroupFrom(Tail(rest), Append(grouped, NewGroup(rule)))

groupAdjacentRules(rules) == GroupAdjacentFrom(rules, <<>>)
groupIdenticalRules(rules) == GroupFrom(rules, <<>>)

(***************************************************************************)
(* groupIdenticalRules applied to lists of up to MaxRules rules.           *)
(***************************************************************************)
RuleClassNames == {<<"p", "-", "[", "1", "p", "x", "]">>, <<"p", "a", "d", "-", "[", "1", "p", "x", "]">>, <<"m", "-", "[", "1", "p", "x", "]">>}
RuleDeclarations ==
    {[property |-> <<"p", "a", "d", "d", "i", "n", "g">>, value |-> <<"1", "p", "x">>],
     [property |-> <<"m", "a", "r", "g", "i", "n">>, value |-> <<"1", "p", "x">>],
     [property |-> <<"m", "a", "r", "g", "i", "n">>, value |-> <<"2", "p", "x">>]}
DeclarationString(declaration) == declaration.property \o <<":", " ">> \o declaration.value
RuleInputs ==
    {[selector |-> generateSelector(className),
      className |-> className,
      declarations |-> <<declaration>>,
      declarationString |-> DeclarationString(declaration)] :
        className \in RuleClassNames, declaration \in RuleDeclarations}
RuleLists == UNION {[1..n -> RuleInputs] : n \in 0..MaxRules}

\* One call per behaviour: the function keeps no state between calls.
GroupIdenticalRules(rules) ==
    /\ fnCall.name = "none"
    /\ fnCall' = [name |-> "groupIdenticalRules", rules |-> rules]
    /\ fnRet' = groupIdenticalRules(rules)
    /\ UNCHANGED <<now, lruVars, engine, keyVars, sysVars>>

GroupNext == \E rules \in RuleLists : GroupIdenticalRules(rules)

(***************************************************************************)
(* core/security/safeRegex: the operations of createSafeRegex(regex,       *)
(* options), and syncSafeRegexTest with all its options.  An operation of  *)
(* the model returns the value the code returns together with `executed`:  *)
(* whether regex.test, input.match or input.replace ran on the input.      *)
(***************************************************************************)
Ran(returned) == [returned |-> returned, executed |-> TRUE]
NotRun(returned) == [returned |-> returned, executed |-> FALSE]
SafeError(message) == [message |-> message]

\* const { maxLength = 10000, allowUnsafe = false } = options
OptionOr(options, name, default) ==
    IF name \in DOMAIN options THEN options[name] ELSE default

\* input.match(regex) for a regex without the g flag: the leftmost match, which
\* for the patterns of the model (one greedy quantifier at most) is the longest
\* one at its start, or null.
MatchStarts(regex, str) ==
    {i \in 1..(Len(str) + 1) : MatchEnds(regex.pattern, str, {i}) # {}}
Least(S) == CHOOSE n \in S : \A m \in S : n <= m
Greatest(S) == CHOOSE n \in S : \A m \in S : m <= n
StringMatch(regex, str) ==
    IF MatchStarts(regex, str) = {} THEN Null
    ELSE LET start == Least(MatchStarts(regex, str))
             end == Greatest(MatchEnds(regex.pattern, str, {start}))
         IN  [match |-> SubSeq(str, start, end - 1), index |-> start - 1]

\* input.replace(regex, replacement) for such a regex and a replacement
\* string without $ patterns
StringReplace(regex, str, replacement) ==
    LET found == StringMatch(regex, str)
    IN  IF found = Null THEN str
        ELSE SubSeq(str, 1, found.index) \o replacement
                \o SubSeq(str, found.index + Len(found.match) + 1, Len(str))

syncSafeRegexTestWithOptions(regex, input, options, slow) ==
    LET maxLength == OptionOr(options, "maxLength", DefaultMaxLength)
        allowUnsafe == OptionOr(options, "allowUnsafe", FALSE)
    IN  IF ~IsString(input)
        THEN NotRun([result |-> FALSE, timedOut |-> FALSE, error |-> SafeError("Invalid input type")])
        ELSE IF Len(input.str) > maxLength /\ ~allowUnsafe
        THEN NotRun([result |-> FALSE, timedOut |-> FALSE, error |-> SafeError("Input too long")])
        ELSE IF isDangerousRegex(regex) /\ ~allowUnsafe
        THEN NotRun([result |-> FALSE, timedOut |-> FALSE,
                     error |-> SafeError("Potentially unsafe regex pattern detected")])
        ELSE IF slow
        THEN Ran([result |-> FALSE, timedOut |-> TRUE,
                  error |-> SafeError("Regex execution took too long")])
        ELSE Ran([result |-> RegExpTest(regex, input.str), timedOut |-> FALSE, error |-> Null])

safeRegexMatchOf(regex, input, slow) ==
    IF ~IsString(input)
    THEN NotRun([matches |-> Null, timedOut |-> FALSE, error |-> SafeError("Invalid input type")])
    ELSE IF slow
    THEN Ran([matches |-> Null, timedOut |-> TRUE, error |-> SafeError("Regex match took too long")])
    ELSE Ran([matches |-> StringMatch(regex, input.str), timedOut |-> FALSE, error |-> Null])

safeRegexReplace(regex, input, replacement, slow) ==
    IF ~IsString(input)
    THEN NotRun([result |-> input, timedOut |-> FALSE, error |-> SafeError("Invalid input type")])
    ELSE IF slow
    THEN Ran([result |-> input, timedOut |-> TRUE,
              error |-> SafeError("Regex replace took too long")])
    ELSE Ran([result |-> JSStr(StringReplace(regex, input.str, replacement)),
              timedOut |-> FALSE, error |-> Null])

\* The methods of the wrapper createSafeRegex(regex, options) returns
SafeRegex_test(regex, options, input, slow) ==
    syncSafeRegexTestWithOptions(regex, input,
        [maxLength |-> OptionOr(options, "maxLength", DefaultMaxLength)], slow)
SafeRegex_match(regex, options, input, slow) == safeRegexMatchOf(regex, input, slow)
SafeRegex_replace(regex, options, input, replacement, slow) ==
    safeRegexReplace(regex, input, replacement, slow)
SafeRegex_exec(regex, options, input, slow) ==
    LET matchResult == safeRegexMatchOf(regex, input, slow)
    IN  [returned |-> IF matchResult.returned.timedOut THEN Null
                      ELSE matchResult.returned.matches,
         executed |-> matchResult.executed]

(***************************************************************************)
(* The safe regex operations applied to inputs of up to MaxInputLength     *)
(* characters under length budgets below and above that.                   *)
(***************************************************************************)
SafeRegexes ==
    {[pattern |-> Plus(OneOf({"a"})), ignoreCase |-> FALSE],
     [pattern |-> Sequence(<<Bol, OneOf({"b"})>>), ignoreCase |-> FALSE]}
SafeInputs ==
    {JSStr(s) : s \in UNION {[1..n -> {"a", "b"}] : n \in 0..MaxInputLength}}
      \cup {Null, JSNum(42)}
SafeOptions == {[maxLength |-> 1], [maxLength |-> 2], << >>}
TestOptions == SafeOptions \cup {[maxLength |-> 1, allowUnsafe |-> TRUE]}
Replacement == <<"x">>

\* One call per behaviour: the operations keep no state between calls.
SafeCall(name, options, input, outcome) ==
    /\ fnCall.name = "none"
    /\ fnCall' = [name |-> name, input |-> input,
                  maxLength |-> OptionOr(options, "maxLength", DefaultMaxLength),
                  allowUnsafe |-> OptionOr(options, "allowUnsafe", FALSE)]
    /\ fnRet' = outcome
    /\ UNCHANGED <<now, lruVars, engine, keyVars, sysVars>>

SyncSafeRegexTest(regex, input, options, slow) ==
    SafeCall("syncSafeRegexTest", options, input,
             syncSafeRegexTestWithOptions(regex, input, options, slow))
SafeRegexTest(regex, options, input, slow) ==
    SafeCall("test", options, input, SafeRegex_test(regex, options, input, slow))
SafeRegexMatch(regex, options, input, slow) ==
    SafeCall("match", options, input, SafeRegex_match(regex, options, input, slow))
SafeRegexReplace(regex, options, input, slow) ==
    SafeCall("replace", options, input,
             SafeRegex_replace(regex, options, input, Replacement, slow))
SafeRegexExec(regex, options, input, slow) ==
    SafeCall("exec", options, input, SafeRegex_exec(regex, options, input, slow))

SafeNext ==
    \E regex \in SafeRegexes, input \in SafeInputs, slow \in BOOLEAN :
        \/ \E options \in TestOptions : SyncSafeRegexTest(regex, input, options, slow)
        \/ \E options \in SafeOptions : SafeRegexTest(regex, options, input, slow)
        \/ \E options \in SafeOptions : SafeRegexMatch(regex, options, input, slow)
        \/ \E options \in SafeOptions : SafeRegexReplace(regex, options, input, slow)
        \/ \E options \in SafeOptions : SafeRegexExec(regex, options, input, slow)

(***************************************************************************)
(* normalizeCSSValue applied to hex colours of 3 to MaxHexLength digits,   *)
(* bare and inside white space, and then to its own result.                *)
(***************************************************************************)
HexInputDigits == {"0", "a", "F"}
HexColors == {<<"#">> \o digits : digits \in UNION {[1..n -> HexInputDigits] : n \in 3..MaxHexLength}}
HexInputs == HexColors \cup {<<" ">> \o color \o <<" ">> : color \in HexColors}

NormalizeCSSValue(value) ==
    /\ fnCall.name = "none"
    /\ fnCall' = [name |-> "normalizeCSSValue", value |-> value, again |-> FALSE, first |-> value]
    /\ fnRet' = normalizeCSSValue(value)
    /\ UNCHANGED <<now, lruVars, engine, keyVars, sysVars>>

\* The result of the call is normalized once more.
NormalizeAgain ==
    /\ fnCall.name = "normalizeCSSValue"
    /\ ~fnCall.again
    /\ fnCall' = [fnCall EXCEPT !.value = fnRet, !.again = TRUE]
    /\ fnRet' = normalizeCSSValue(fnRet)
    /\ UNCHANGED <<now, lruVars, engine, keyVars, sysVars>>

NormalizeNext ==
    \/ \E value \in HexInputs : NormalizeCSSValue(value)
    \/ NormalizeAgain

(***************************************************************************)
(* The cache system with its default configuration under the sweep timer,  *)
(* on a clock that counts quarters of an hour: entries are written and     *)
(* read through withRuleCache and withGenerationCache, the timer runs      *)
(* optimize() at or after the time it is due.                              *)
(***************************************************************************)
QuarterHour == TTL_THIRTY_MINUTES \div 2
SweepNow == now * QuarterHour
SweepAge(entry) == SweepNow - entry.timestamp

SweepCall(op, result) ==
    /\ keygen.accessCounter < SysMaxAccesses
    /\ result[2].accessCounter <= SysMaxAccesses
    /\ \A tier \in Tiers : \A k \in DOMAIN result[1][tier].cache :
          result[1][tier].cache[k].accessCount <= MaxAccessCount
    /\ zcs' = result[1]
    /\ keygen' = result[2]
    /\ sysRet' = result[3]
    /\ sysOp' = op
    /\ UNCHANGED <<now, fnVars, timers, cleanupCalled, coldParse, lruVars, engine, keyOp, keyRet,
                   lastGen>>

SweepCachedRule(selector, declarations) ==
    SweepCall([name |-> "cachedRule", tier |-> "ruleCache",
               key |-> MKG_getRuleKey(keygen, selector, declarations)[2]],
              cachedRule(zcs, keygen, selector, declarations, GeneratedRule, SweepNow))

SweepCachedGenerate(classArray, options) ==
    SweepCall([name |-> "cachedGenerate", tier |-> "generationCache",
               key |-> MKG_getGenerationKey(keygen, classArray, options)[2]],
              cachedGenerate(zcs, keygen, classArray, options, GeneratedResult, SweepNow))

\* The runtime runs the callback of the due interval timer and re-arms it.
SweepTimerFires ==
    \E t \in timers :
        /\ SweepNow >= t.due
        /\ \E swept \in {ZCS_optimize(zcs, keygen, SweepNow)} :
              /\ zcs' = swept[1]
              /\ keygen' = swept[2]
        /\ sysOp' = [name |-> "timer",
                     swept |-> UNION {{[tier |-> tier, age |-> SweepAge(zcs[tier].cache[k]),
                                        expired |-> SweepAge(zcs[tier].cache[k]) > zcs[tier].ttl] :
                                          k \in (DOMAIN zcs[tier].cache) \ (DOMAIN zcs'[tier].cache)} :
                                      tier \in Tiers}]
        /\ sysRet' = Undefined
        /\ timers' = (timers \ {t}) \cup {[t EXCEPT !.due = SweepNow + t.interval]}
        /\ UNCHANGED <<now, fnVars, cleanupCalled, coldParse, lruVars, engine, keyOp, keyRet, lastGen>>

SweepTick ==
    /\ now < SweepMaxTime
    /\ now' = now + 1
    /\ sysOp' = [name |-> "tick"]
    /\ UNCHANGED <<zcs, timers, sysRet, cleanupCalled, coldParse, lruVars, engine, keyVars, fnVars>>

SweepNext ==
    \/ \E selector \in Selectors, declarations \in SysDeclarations :
          SweepCachedRule(selector, declarations)
    \/ \E classArray \in SysClassArrays, options \in SysOptions :
          SweepCachedGenerate(classArray, options)
    \/ SweepTimerFires
    \/ SweepTick

(***************************************************************************)
(* The generation cache key.  core/cache/index.js asks the memoizing key   *)
(* generator for it (MKG_getGenerationKey above); core/cache/cacheSystem.js *)
(* computes it itself.  The MD5 digests are kept as the text they are      *)
(* digests of: two digests are equal here only if their texts are.         *)
(***************************************************************************)
Md5Hex(input) == [md5hex |-> input]

\* value || false
OrFalse(v) == IF Truthy(v) THEN v ELSE JSBool(FALSE)

\* hashObject({minify, groupSelectors, includeComments}): JSON.stringify with
\* the keys sorted, then hashString
CS_hashOptions(options) ==
    Md5Hex8(<<"{", "\"", "g", "r", "o", "u", "p", "S", "e", "l", "e", "c", "t", "o", "r", "s", "\"", ":">> \o JsonValue(JSBool(options.groupSelectors # JSBool(FALSE)))
              \o <<",", "\"", "i", "n", "c", "l", "u", "d", "e", "C", "o", "m", "m", "e", "n", "t", "s", "\"", ":">> \o JsonValue(OrFalse(options.includeComments))
              \o <<",", "\"", "m", "i", "n", "i", "f", "y", "\"", ":">> \o JsonValue(OrFalse(options.minify)) \o <<"}">>)

\* createGenerationKey(classArray, options) of cacheSystem.js
CS_createGenerationKey(classArray, options) ==
    GenKeyOf(Md5Hex(ArrayJoin(ArraySort(classArray), <<"|">>)), CS_hashOptions(options))

(***************************************************************************)
(* Generation keys requested for up to GenKeyMaxRequests requests, one     *)
(* after the other, from both cache systems.                               *)
(***************************************************************************)
Class_m1p1 == Class_m1 \o <<"|">> \o Class_p1
RequestClassArrays ==
    {<<Class_m1, Class_p1>>, <<Class_p1, Class_m1>>, <<Class_m1p1>>, <<Class_m1>>,
     <<Class_p1, Class_p1>>, <<Class_p1>>, <<>>}
RequestOptions ==
    {Options(Undefined, Undefined, Undefined, Undefined, Undefined),
     Options(JSBool(TRUE), Undefined, Undefined, Undefined, Undefined),
     Options(Undefined, JSBool(FALSE), Undefined, Undefined, Undefined),
     Options(Undefined, Undefined, Undefined, JSBool(TRUE), Undefined),
     Options(Undefined, Undefined, Undefined, Undefined, JSStr(Scope_app))}
RequestsMade == IF fnCall.name = "none" THEN <<>> ELSE fnCall.requests

CreateGenerationKey(classArray, options) ==
    /\ Len(RequestsMade) < GenKeyMaxRequests
    /\ \E memoized \in {MKG_getGenerationKey(keygen, classArray, options)} :
          /\ keygen' = memoized[1]
          /\ fnRet' = Append(IF fnCall.name = "none" THEN <<>> ELSE fnRet,
                             [memoized |-> memoized[2],
                              direct |-> CS_createGenerationKey(classArray, options)])
    /\ fnCall' = [name |-> "createGenerationKey",
                  requests |-> Append(RequestsMade,
                                      [classArray |-> classArray, options |-> options])]
    /\ UNCHANGED <<now, lruVars, engine, keyOp, keyRet, lastGen, sysVars>>

GenKeyNext ==
    \E classArray \in RequestClassArrays, options \in RequestOptions :
        CreateGenerationKey(classArray, options)

(***************************************************************************)
(* createEngine(options): the incremental engine.  `engine` holds what the *)
(* closure holds: the options object, the destructured options, allClasses *)
(* (a Set, kept in insertion order), cachedCSS, lastUpdateTime, parseCache *)
(* (a Map, kept in insertion order as key/value pairs) and updateCount.    *)
(* The stats counters and the processing times of the results, which no    *)
(* method reads back to decide anything, are left out.                     *)
(***************************************************************************)
DefaultMaxClasses == 10000

\* value, or the destructuring default when the option is absent
OptionOrDefault(v, default) == IF v = Undefined THEN default ELSE v

EngineOptions(minify, maxClasses, cacheEnabled) ==
    [minify |-> minify, groupSelectors |-> Undefined, includeComments |-> Undefined,
     maxClasses |-> maxClasses, cacheEnabled |-> cacheEnabled]
GenerationOptions(minify) ==
    [minify |-> minify, groupSelectors |-> Undefined, includeComments |-> Undefined]

\* {...base, ...over} and Object.assign(base, over), for the keys `over` has
ObjectSpread(base, over) ==
    [k \in DOMAIN base |->
        IF k \in DOMAIN over /\ over[k] # Undefined THEN over[k] ELSE base[k]]

createEngine(options, time) ==
    [options |-> options,
     minify |-> OptionOrDefault(options.minify, JSBool(FALSE)),
     groupSelectors |-> OptionOrDefault(options.groupSelectors, JSBool(TRUE)),
     includeComments |-> OptionOrDefault(options.includeComments, JSBool(FALSE)),
     maxClasses |-> OptionOrDefault(options.maxClasses, JSNum(DefaultMaxClasses)).num,
     cacheEnabled |-> OptionOrDefault(options.cacheEnabled, JSBool(TRUE)),
     allClasses |-> <<>>,
     cachedCSS |-> Null,
     lastUpdateTime |-> time,
     parseCache |-> <<>>,
     updateCount |-> 0]

\* Set.add, Set.delete on a set kept in insertion order
SetAdd(items, item) == IF item \in Range(items) THEN items ELSE Append(items, item)
SetDelete(items, item) == SelectSeq(items, LAMBDA i : i # item)
RECURSIVE SetAddAll(_, _)
SetAddAll(items, added) ==
    IF added = <<>> THEN items ELSE SetAddAll(SetAdd(items, Head(added)), Tail(added))

\* Map.has, Map.get on the key/value pairs of a Map
MapHas(entries, key) == \E i \in 1..Len(entries) : entries[i].key = key
MapGet(entries, key) == entries[CHOOSE i \in 1..Len(entries) : entries[i].key = key].value

\* entries.slice(-n): the last n entries, and all of them when n is 0
SliceLast(entries, n) ==
    IF n = 0 \/ n >= Len(entries) THEN entries
    ELSE SubSeq(entries, Len(entries) - n + 1, Len(entries))

Engine_invalidateCache(e, time) ==
    [e EXCEPT !.cachedCSS = Null,
              !.lastUpdateTime = time,
              !.parseCache = IF Len(e.parseCache) > e.maxClasses
                             THEN SliceLast(e.parseCache, e.maxClasses \div 2)
                             ELSE e.parseCache]

\* sanitizeInputArray(inputs) for an array: the sanitized strings and the failed inputs
sanitizeInputArray(inputs) ==
    [sanitized |-> SelectSeq([i \in 1..Len(inputs) |-> sanitizeInput(inputs[i])],
                             LAMBDA cleaned : cleaned # Null),
     failed |-> SelectSeq(inputs, LAMBDA input : sanitizeInput(input) = Null)]

\* validateClasses(sanitized) is core/validators/classValidator.js, which is
\* not among the sources: it may find any of the strings valid.
ValidationsOf(sanitized) ==
    {[valid |-> SelectSeq(sanitized, LAMBDA cls : cls \in accepted),
      invalid |-> SelectSeq(sanitized, LAMBDA cls : cls \notin accepted)] :
        accepted \in SUBSET Range(sanitized)}

\* addClasses(classes) that changes the class set without invalidating anything
Engine_addClassesSilently(e, classes, validation, time) ==
    IF ~IsArray(classes)
    THEN <<e, [success |-> FALSE, added |-> 0, totalClasses |-> Len(e.allClasses)]>>
    ELSE <<[e EXCEPT !.allClasses = SetAddAll(e.allClasses, validation.valid)],
           [success |-> TRUE,
            added |-> Len(SetAddAll(e.allClasses, validation.valid)) - Len(e.allClasses),
            totalClasses |-> Len(SetAddAll(e.allClasses, validation.valid))]>>

\* addClasses(classes), where validateClasses returns `validation`:
\* <<engine, returned value>>
Engine_addClasses(e, classes, validation, time) ==
    IF ~IsArray(classes)
    THEN <<e, [success |-> FALSE, added |-> 0, totalClasses |-> Len(e.allClasses)]>>
    ELSE LET added == SetAddAll(e.allClasses, validation.valid)
             addedCount == Len(added) - Len(e.allClasses)
             grown == [e EXCEPT !.allClasses = added]
             invalidated == IF addedCount > 0 THEN Engine_invalidateCache(grown, time)
                            ELSE grown
         IN  <<[invalidated EXCEPT !.updateCount = @ + 1],
               [success |-> TRUE, added |-> addedCount, totalClasses |-> Len(added)]>>

RECURSIVE SetDeleteStrings(_, _)
SetDeleteStrings(items, removed) ==
    IF removed = <<>> THEN items
    ELSE SetDeleteStrings(IF IsString(Head(removed)) THEN SetDelete(items, Head(removed))
                          ELSE items,
                          Tail(removed))

Engine_removeClasses(e, classes, time) ==
    IF ~IsArray(classes)
    THEN <<e, [success |-> FALSE, removed |-> 0, totalClasses |-> Len(e.allClasses)]>>
    ELSE LET kept == SetDeleteStrings(e.allClasses, classes.arr)
             removedCount == Len(e.allClasses) - Len(kept)
             shrunk == [e EXCEPT !.allClasses = kept]
         IN  <<IF removedCount > 0
               THEN [Engine_invalidateCache(shrunk, time) EXCEPT !.updateCount = @ + 1]
               ELSE shrunk,
               [success |-> TRUE, removed |-> removedCount, totalClasses |-> Len(kept)]>>

Engine_clear(e, time) ==
    <<[Engine_invalidateCache([e EXCEPT !.allClasses = <<>>], time)
          EXCEPT !.updateCount = @ + 1],
      [success |-> TRUE, clearedCount |-> Len(e.allClasses), totalClasses |-> 0]>>

Engine_updateOptions(e, newOptions, time) ==
    <<Engine_invalidateCache([e EXCEPT !.options = ObjectSpread(e.options, newOptions)], time),
      ObjectSpread(e.options, newOptions)>>

\* parsed.length and parsed[0], where parsed is the ParseResult that
\* parseClasses returns: the class has the fields parsed and invalid only
ParseResult_length(parseResult) == Undefined
ParseResult_first(parseResult) == Undefined

\* v !== 0
DiffersFromZero(v) == v # JSNum(0)
\* v > 0, which is false of undefined
GreaterThanZero(v) == "num" \in DOMAIN v /\ v.num > 0

\* The loop of getCSS over classArray from the state `acc`: the parse cache,
\* the parsed classes, and the module-level cache and key generator that
\* parseClasses goes through.
RECURSIVE Engine_parseAll(_, _, _, _)
Engine_parseAll(acc, classArray, slows, time) ==
    IF classArray = <<>> THEN acc
    ELSE LET className == Head(classArray)
             step(parsed) ==
                 IF GreaterThanZero(ParseResult_length(parsed))
                 THEN [z |-> parsed.z, m |-> parsed.m,
                       parseCache |-> Append(acc.parseCache,
                                             [key |-> className,
                                              value |-> ParseResult_first(parsed)]),
                       parsedClasses |-> Append(acc.parsedClasses, ParseResult_first(parsed))]
                 ELSE [acc EXCEPT !.z = parsed.z, !.m = parsed.m]
         IN  IF MapHas(acc.parseCache, className)
             THEN Engine_parseAll([acc EXCEPT !.parsedClasses =
                                       Append(@, MapGet(acc.parseCache, className))],
                                  Tail(classArray), Tail(slows), time)
             ELSE Engine_parseAll(step(parseClasses(acc.z, acc.m, JSArr(<<className>>),
                                                    <<Head(slows)>>, time)),
                                  Tail(classArray), Tail(slows), time)

\* generateCSS of core/generator/index.js is not among the sources: the CSS it
\* returns is kept as the arguments it was generated from.
GeneratedCSS(parsedClasses, finalOptions) ==
    [parsedClasses |-> parsedClasses, options |-> finalOptions]

EngineResult(css, classes, fromCache, error) ==
    [css |-> css, classes |-> classes, stats |-> [totalClasses |-> Len(classes)],
     fromCache |-> fromCache, error |-> error]

Engine_finalOptions(e, generationOptions) ==
    ObjectSpread([minify |-> e.minify, groupSelectors |-> e.groupSelectors,
                  includeComments |-> e.includeComments],
                 generationOptions)

\* cacheEnabled && cachedCSS && updateCount === 0
Engine_cacheUsable(e) == Truthy(e.cacheEnabled) /\ e.cachedCSS # Null /\ e.updateCount = 0

\* getCSS(generationOptions), where slows[i] tells whether the regex executions
\* for the i-th class run out of time and `throws` whether the generator throws:
\* [e, z, m, ret]
Engine_getCSS(e, z, m, generationOptions, slows, throws, time) ==
    IF Engine_cacheUsable(e)
    THEN [e |-> e, z |-> z, m |-> m, ret |-> [e.cachedCSS EXCEPT !.fromCache = TRUE]]
    ELSE IF e.allClasses = <<>>
    THEN [e |-> IF Truthy(e.cacheEnabled)
                THEN [e EXCEPT !.cachedCSS = EngineResult(<<>>, <<>>, FALSE, Undefined),
                               !.updateCount = 0]
                ELSE e,
          z |-> z, m |-> m, ret |-> EngineResult(<<>>, <<>>, FALSE, Undefined)]
    ELSE LET finish(all) ==
                 IF throws
                 THEN [e |-> [e EXCEPT !.parseCache = all.parseCache],
                       z |-> all.z, m |-> all.m,
                       ret |-> EngineResult(<<>>, e.allClasses, FALSE, JSStr(<<"e">>))]
                 ELSE [e |-> IF Truthy(e.cacheEnabled)
                             THEN [e EXCEPT !.parseCache = all.parseCache,
                                            !.cachedCSS =
                                                EngineResult(GeneratedCSS(all.parsedClasses,
                                                                 Engine_finalOptions(e, generationOptions)),
                                                             e.allClasses, FALSE, Undefined),
                                            !.updateCount = 0]
                             ELSE [e EXCEPT !.parseCache = all.parseCache],
                       z |-> all.z, m |-> all.m,
                       ret |-> EngineResult(GeneratedCSS(all.parsedClasses,
                                                Engine_finalOptions(e, generationOptions)),
                                            e.allClasses, FALSE, Undefined)]
         IN  finish(Engine_parseAll([z |-> z, m |-> m, parseCache |-> e.parseCache,
                                     parsedClasses |-> <<>>],
                                    e.allClasses, slows, time))

Engine_getStats(e) ==
    [totalClasses |-> Len(e.allClasses), cacheSize |-> Len(e.parseCache),
     updateCount |-> e.updateCount]

\* importState(state), where validateClasses returns `validation`
Engine_importState(e, state, validation, time) ==
    IF ~Truthy(state) \/ ~IsArray(state.classes)
    THEN <<e, [success |-> FALSE, imported |-> 0, totalClasses |-> Len(e.allClasses)]>>
    ELSE LET cleared == Engine_clear(e, time)[1]
             added == Engine_addClasses(cleared, state.classes, validation, time)
             updated == IF Truthy(state.options)
                        THEN Engine_updateOptions(added[1], state.options, time)[1]
                        ELSE added[1]
         IN  <<updated, [success |-> TRUE, imported |-> added[2].added,
                         totalClasses |-> Len(updated.allClasses)]>>

(***************************************************************************)
(* One engine under calls of its methods.                                  *)
(***************************************************************************)
EngineClasses == <<JSStr(Class_p1), JSStr(Class_p24px)>>
EngineClassArrays ==
    {JSArr(<<EngineClasses[1]>>), JSArr(<<EngineClasses[2]>>), JSArr(EngineClasses),
     JSArr(<<Null>>), EngineClasses[1]}
CreateOptions ==
    {EngineOptions(Undefined, maxClasses, cacheEnabled) :
        maxClasses \in {Undefined, JSNum(EngineMaxClasses)},
        cacheEnabled \in {Undefined, JSBool(FALSE)}}
GenerationOptionsInputs == {GenerationOptions(Undefined), GenerationOptions(JSBool(TRUE))}
ImportStates ==
    {Null,
     [classes |-> JSArr(<<EngineClasses[1]>>), options |-> Undefined],
     [classes |-> JSArr(EngineClasses), options |-> EngineOptions(JSBool(TRUE), Undefined, Undefined)]}

EngineCall(name, input, result) ==
    /\ engine # Null
    /\ fnCall' = [name |-> name, input |-> input]
    /\ fnRet' = result
    /\ UNCHANGED <<now, lruVars, keyOp, keyRet, lastGen, timers, sysOp, sysRet,
                   cleanupCalled, coldParse>>

CreateEngine(options) ==
    /\ engine = Null
    /\ engine' = createEngine(options, DateNow)
    /\ fnCall' = [name |-> "createEngine", input |-> options]
    /\ fnRet' = Undefined
    /\ UNCHANGED <<now, lruVars, keyVars, sysVars>>

AddClasses(classes) ==
    /\ engine # Null
    /\ engine.updateCount < EngineMaxUpdates
    /\ \E validation \in (IF IsArray(classes)
                           THEN ValidationsOf(sanitizeInputArray(classes.arr).sanitized)
                           ELSE {Null}) :
          \E ret \in {Engine_addClasses(engine, classes, validation, DateNow)} :
              /\ EngineCall("addClasses", classes, ret[2])
              /\ engine' = ret[1]
    /\ UNCHANGED <<zcs, keygen>>

RemoveClasses(classes) ==
    /\ engine # Null
    /\ engine.updateCount < EngineMaxUpdates
    /\ \E ret \in {Engine_removeClasses(engine, classes, DateNow)} :
          /\ EngineCall("removeClasses", classes, ret[2])
          /\ engine' = ret[1]
    /\ UNCHANGED <<zcs, keygen>>

Clear ==
    /\ engine # Null
    /\ engine.updateCount < EngineMaxUpdates
    /\ \E ret \in {Engine_clear(engine, DateNow)} :
          /\ EngineCall("clear", Undefined, ret[2])
          /\ engine' = ret[1]
    /\ UNCHANGED <<zcs, keygen>>

GetCSS(generationOptions) ==
    /\ engine # Null
    /\ \/ Engine_cacheUsable(engine)
       \/ keygen.accessCounter + Len(engine.allClasses) <= EngineMaxAccesses
    /\ \E slows \in [1..Len(engine.allClasses) -> BOOLEAN], throws \in BOOLEAN :
          \E ret \in {Engine_getCSS(engine, zcs, keygen, generationOptions, slows,
                                    throws, DateNow)} :
              /\ EngineCall("getCSS", generationOptions, ret.ret)
              /\ engine' = ret.e
              /\ zcs' = ret.z
              /\ keygen' = ret.m

GetStats ==
    /\ engine # Null
    /\ EngineCall("getStats", Undefined, Engine_getStats(engine))
    /\ UNCHANGED <<engine, zcs, keygen>>

UpdateOptions(newOptions) ==
    /\ engine # Null
    /\ \E ret \in {Engine_updateOptions(engine, newOptions, DateNow)} :
          /\ EngineCall("updateOptions", newOptions, ret[2])
          /\ engine' = ret[1]
    /\ UNCHANGED <<zcs, keygen>>

ImportState(state) ==
    /\ engine # Null
    /\ engine.updateCount + 1 < EngineMaxUpdates
    /\ \E validation \in (IF Truthy(state) /\ IsArray(state.classes)
                           THEN ValidationsOf(sanitizeInputArray(state.classes.arr).sanitized)
                           ELSE {Null}) :
          \E ret \in {Engine_importState(engine, state, validation, DateNow)} :
              /\ EngineCall("importState", state, ret[2])
              /\ engine' = ret[1]
    /\ UNCHANGED <<zcs, keygen>>

EngineNext ==
    \/ \E options \in CreateOptions : CreateEngine(options)
    \/ \E classes \in EngineClassArrays : AddClasses(classes)
    \/ \E classes \in EngineClassArrays : RemoveClasses(classes)
    \/ Clear
    \/ \E generationOptions \in GenerationOptionsInputs : GetCSS(generationOptions)
    \/ GetStats
    \/ \E newOptions \in {EngineOptions(JSBool(TRUE), Undefined, Undefined)} :
          UpdateOptions(newOptions)
    \/ \E state \in ImportStates : ImportState(state)

\* The stand-alone cache and key generator of the bounds above.
Init ==
    /\ now = 0
    /\ LruInit
    /\ KeyInit
    /\ SysInit

\* The module-level instances globalCache and globalKeyGenerator.
GlobalInit ==
    /\ now = 0
    /\ LruInit
    /\ GlobalKeyInit
    /\ SysInit

SpecLRU == Init /\ [][LruNext]_vars

SpecKey == Init /\ [][KeyNext]_vars

SpecOpt == Init /\ [][OptNext]_vars

SpecDetect == Init /\ [][DetectNext]_vars

SpecThreat == GlobalInit /\ [][ThreatNext]_vars

SpecApi == GlobalInit /\ [][ApiNext]_vars

\* The job queue is drained: a job that can run does run.
SpecApiLive == GlobalInit /\ [][ApiNext]_vars /\ WF_vars(SettleGenerateCSS)

SpecValue == Init /\ [][ValueNext]_vars

SpecLength == Init /\ [][LengthNext]_vars

SpecShorthand == GlobalInit /\ [][ShorthandNext]_vars

SpecGroup == Init /\ [][GroupNext]_vars

SpecSafe == Init /\ [][SafeNext]_vars

SpecNormalize == Init /\ [][NormalizeNext]_vars

SpecSweep == GlobalInit /\ [][SweepNext]_vars

SpecGenKey == GlobalInit /\ [][GenKeyNext]_vars

SpecEngine == GlobalInit /\ [][EngineNext]_vars

SpecSys == GlobalInit /\ [][SysNext]_vars

SpecParse == GlobalInit /\ [][ParseNext]_vars

(***************************************************************************)
(* Claims about the stand-alone LRUCache, checked under SpecLRU.           *)
(***************************************************************************)

\* C1: the number of stored entries never exceeds maxSize, whatever the
\* sequence of set, get, delete and clear calls and whatever the keys.
C1_SizeWithinMaxSize == LRUCache_size(lru) <= lru.maxSize

\* C2: a set of a key that is not stored, on a tier that holds maxSize
\* entries, removes exactly one stored entry, and that entry is the one whose
\* last set or successful get is the oldest.
C2_EvictsTheLeastRecentlyUsed ==
    [][\A k \in Keys, v \in Values :
         (LruSet(k, v) /\ k \notin Stored(lru) /\ LRUCache_size(lru) >= lru.maxSize)
         => \E victim \in Stored(lru) :
               /\ Stored(lru') = (Stored(lru) \ {victim}) \cup {k}
               /\ victim = recency[1]]_vars

\* C3: a stored entry whose last set was at time T is returned by a get at
\* every time t with t - T <= ttl and stays stored; at every time t with
\* t - T > ttl the get returns a miss and removes the entry.
C3_TtlDecidesGet ==
    [][\A k \in Keys :
         (LruGet(k) /\ k \in Stored(lru))
         => IF now - lastSet[k].time <= lru.ttl
            THEN lruRet' = lastSet[k].value /\ k \in Stored(lru')
            ELSE lruRet' = Null /\ k \notin Stored(lru')]_vars

\* C3 witness: a get of a stored entry older than ttl has returned a miss.
C3_ExpiredGetMissed ==
    /\ lruOp = [name |-> "get", outcome |-> "expired"]
    /\ lruRet = Null

\* C4 as stated: a get that hits bumps the entry's timestamp to the time of
\* the hit and increments its access count by one.
C4_HitBumpsTimestamp ==
    [][\A k \in Keys :
         (LruGet(k) /\ lruRet' # Null)
         => /\ lru'.cache[k].timestamp = now
            /\ lru'.cache[k].accessCount = lru.cache[k].accessCount + 1]_vars

\* C4 amended: a get that hits increments the entry's access count by one and
\* moves the key to the most-recent end of the access order with the time of
\* the hit; the entry's timestamp stays the time of its set.
C4_HitCountsAndReorders ==
    [][\A k \in Keys :
         (LruGet(k) /\ lruRet' # Null)
         => /\ lru'.cache[k].accessCount = lru.cache[k].accessCount + 1
            /\ lru'.cache[k].timestamp = lru.cache[k].timestamp
            /\ lru'.cache[k].value = lru.cache[k].value
            /\ lru'.accessOrder[Len(lru'.accessOrder)] = [key |-> k, val |-> now]]_vars

\* C4 witness: a get has hit an entry that was set at an earlier tick.
C4_HitAfterTick ==
    /\ lruOp = [name |-> "get", outcome |-> "live"]
    /\ lruRet # Null
    /\ Len(lru.accessOrder) > 0
    /\ LET k == lru.accessOrder[Len(lru.accessOrder)].key
       IN  lru.cache[k].accessCount = 2 /\ lru.cache[k].timestamp < now

(***************************************************************************)
(* Claims about the cache system, checked under SpecSys (C5, C6) and       *)
(* SpecParse (C7).                                                         *)
(***************************************************************************)
\* C5: after a sweep (a call of optimize(), direct or by the timer) none of
\* the three tiers holds an entry older than thirty minutes, whatever the
\* entry's TTL.
C5_SweepRemovesOverAge ==
    sysOp.name \in {"optimize", "timer"} =>
        \A tier \in Tiers : \A k \in DOMAIN zcs[tier].cache :
            AgeOf(zcs[tier].cache[k]) <= TTL_THIRTY_MINUTES

\* C5 witness: one call of optimize() has removed from each of the three tiers
\* an entry whose TTL had not elapsed.
C5_UnexpiredSweptFromEachTier ==
    /\ sysOp.name = "optimize"
    /\ \A tier \in Tiers : \E e \in sysOp.swept : e.tier = tier /\ ~e.expired

\* C6: from the call of cleanup() on, no timer is registered and the timer
\* never runs the sweep.
C6_NoSweepAfterCleanup ==
    [][cleanupCalled' => (timers' = {} /\ sysOp'.name # "timer")]_vars

\* C6 witness: after cleanup() the clock has passed the time the sweep was due
\* at, and an entry older than thirty minutes is still cached.
C6_OverAgeEntryAfterCleanup ==
    /\ cleanupCalled
    /\ sysOp.name = "tick"
    /\ zcs.optimizationInterval = Null
    /\ \E tier \in Tiers : \E k \in DOMAIN zcs[tier].cache :
          AgeOf(zcs[tier].cache[k]) > TTL_THIRTY_MINUTES

\* The bracket tokens of the model with a mapped prefix and a single value.
ValidBracketTokens == {JSStr(Class_p1), JSStr(Class_m1)}
WithoutMetadata(data) == [f \in (DOMAIN data) \ {"metadata"} |-> data[f]]

\* C7: parseClass of a valid bracket token returns a ParsedClass, and the one
\* returned with the cache warm equals, metadata aside, the one the last cold
\* call returned.
C7_ColdAndWarmParsesAgree ==
    (sysOp.name = "parseClass" /\ sysOp.className \in ValidBracketTokens) =>
        /\ sysRet.success
        /\ coldParse[sysOp.className].success
        /\ WithoutMetadata(sysRet.data) = WithoutMetadata(coldParse[sysOp.className].data)

\* What does hold of parseClass: a warm call returns the result the last cold
\* call returned, whether a ParsedClass or a failure.
WarmParseReturnsColdResult ==
    (sysOp.name = "parseClass" /\ sysOp.warm) => sysRet = coldParse[sysOp.className]

(***************************************************************************)
(* Claims about the key generator, checked under SpecKey.                  *)
(***************************************************************************)
\* The requests the claims range over.
WideClassArrays == UNION {[1..n -> ClassNames] : n \in 0..3}
BoolInputs == {Undefined, JSBool(FALSE), JSBool(TRUE)}
WideOptions ==
    {Options(a, b, Undefined, Undefined, e) :
        a \in BoolInputs, b \in BoolInputs, e \in {Undefined, Null, JSStr(Scope_app)}}

Occurrences(arr, x) == Cardinality({i \in 1..Len(arr) : arr[i] = x})
IsPermutation(a, b) ==
    Len(a) = Len(b) /\ \A x \in ClassNames : Occurrences(a, x) = Occurrences(b, x)

\* The options a request means: an omitted option takes its documented default.
OrDefault(v, default) == IF v = Undefined THEN default ELSE v
EffectiveOptions(o) ==
    Options(OrDefault(o.minify, JSBool(FALSE)), OrDefault(o.groupSelectors, JSBool(TRUE)),
            OrDefault(o.includeComments, JSBool(FALSE)), OrDefault(o.important, JSBool(FALSE)),
            OrDefault(o.scope, Null))

\* C8: a class array that is a permutation of the last request's array, with
\* options that mean the same options as the last request's, gets the key the
\* last request got.
C8_GenerationKeyOrderInsensitive ==
    lastGen # Null =>
        LET arrs == {a \in WideClassArrays : IsPermutation(a, lastGen.classArray)}
            meant == EffectiveOptions(lastGen.options)
            opts == {o \in WideOptions : EffectiveOptions(o) = meant}
        IN  \A arr \in arrs, opt \in opts :
                MKG_getGenerationKey(keygen, arr, opt)[2] = lastGen.key

\* C8 witness: the unsorted array with the explicit defaults has been given a
\* key that an equivalent earlier request had memoized.
C8_PermutedRequestServed ==
    /\ lastGen # Null
    /\ keyOp.name = "getGenerationKey"
    /\ lastGen.classArray = <<Class_p1, Class_p12>>
    /\ lastGen.options = Options(JSBool(FALSE), JSBool(TRUE), Undefined, Undefined, Undefined)
    /\ \E ak \in DOMAIN keygen.accessFrequency :
          /\ AccessKeyType(ak) = Lit_generation
          /\ keygen.accessFrequency[ak] >= 2

\* C9: each key cache (parse, generation, rule, hash) holds at most maxSize
\* entries.
C9_KeyCachesBounded ==
    \A type \in KeyTypes : Len(CacheOf(keygen, type)) <= keygen.maxSize

\* C9 witness: a request has evicted from a key cache and the cache is full again.
C9_FullAfterEviction ==
    \E e \in keyOp.evicted : Len(CacheOf(keygen, e.type)) = keygen.maxSize

\* C10: a key request that memoizes a new key in a full key cache removes
\* min(evictionSize, size) entries of that cache, and no entry that stays had a
\* strictly lower access count than a removed one.  (Within getGenerationKey
\* and getRuleKey the hash cache may be evicted from more than once, so there
\* it is judged on the getMemoizedHash requests.)
C10_EvictsLeastFrequentlyUsed ==
    [][\A type \in KeyTypes :
         LET before == CacheOf(keygen, type)
             after == CacheOf(keygen', type)
             removed == OMapKeys(before) \ OMapKeys(after)
             kept == OMapKeys(before) \cap OMapKeys(after)
         IN  (/\ keygen'.accessCounter > keygen.accessCounter
              /\ type = "hash" => keyOp'.name = "getMemoizedHash"
              /\ Len(before) >= keygen.maxSize
              /\ ~(OMapKeys(after) \subseteq OMapKeys(before)))
             => /\ Cardinality(removed) = Min(keygen.evictionSize, Len(before))
                /\ \A r \in removed, k \in kept :
                      FrequencyOf(keygen, AccessKey(type, r))
                          <= FrequencyOf(keygen, AccessKey(type, k))]_vars

\* C10 witness: a request has evicted an entry while an entry with a strictly
\* higher access count stayed.
C10_ColderEntryEvicted ==
    \E e \in keyOp.evicted :
        \E k \in OMapKeys(CacheOf(keygen, e.type)) :
            FrequencyOf(keygen, AccessKey(e.type, k)) > e.frequency + 1

(***************************************************************************)
(* Claims about optimize() of the key generator, checked under SpecOpt.    *)
(***************************************************************************)
\* The memoized keys over the four caches, and the accesses counted so far.
LiveKeys(m) ==
    Len(m.parseKeyCache) + Len(m.generationKeyCache) + Len(m.ruleKeyCache) + Len(m.hashCache)
TotalAccesses(m) == m.accessCounter

\* C11: an optimize() pass removes exactly the memoized keys whose access
\* frequency is below totalAccesses / (liveKeys * 10), both taken at the
\* start of the pass; every other key stays and no key appears.
C11_OptimizeRemovesBelowThreshold ==
    [][keyOp'.name = "optimize" =>
           \A type \in KeyTypes :
               /\ OMapKeys(CacheOf(keygen', type)) \subseteq OMapKeys(CacheOf(keygen, type))
               /\ \A k \in OMapKeys(CacheOf(keygen, type)) :
                      (k \notin OMapKeys(CacheOf(keygen', type))) <=>
                          (FrequencyOf(keygen, AccessKey(type, k)) * LiveKeys(keygen) * 10
                               < TotalAccesses(keygen))]_vars

\* A pass that removed a key of frequency 1 and kept a more frequent one.
C11_ColdKeyRemovedHotKeyKept ==
    /\ keyOp.name = "optimize"
    /\ \E e \in keyOp.evicted : e.frequency = 1
    /\ LiveKeys(keygen) > 0

(***************************************************************************)
(* Claims about the threat detector, checked under SpecDetect.             *)
(***************************************************************************)
\* Whether `part` occurs in `str`.
Contains(str, part) ==
    \E i \in 1..(Len(str) - Len(part) + 1) : SubSeq(str, i, i + Len(part) - 1) = part

\* C12: for every string that contains javascript:, <script or expression(
\* anywhere in it, the detector returns isDangerous = true.
C12_DangerousTokensAlwaysDetected ==
    (fnCall.name = "detectDangerousPatterns"
       /\ \E token \in DangerTokens : Contains(fnCall.input, token))
        => fnRet.isDangerous

\* What the detector does give: the tokens are detected in every string
\* within the length limit whose regex executions stay within their timeout.
DetectedWhenRegexRuns ==
    (fnCall.name = "detectDangerousPatterns"
       /\ Len(fnCall.input) <= DetectMaxLength /\ ~fnCall.slow)
        => fnRet.isDangerous /\ getRiskPriority(fnRet.riskLevel) >= 3

(***************************************************************************)
(* Claims about parseClass on threats, checked under SpecThreat.           *)
(***************************************************************************)
LaterStages == {"validateClassSyntax", "safeRegexMatch", "parseBracketSyntax"}

\* C13: when the threat report of a class name has risk level high or
\* critical, parseClass returns a DangerousInput failure without a
\* ParsedClass, and after the detection no syntax matching, prefix resolution
\* or value parsing is performed for that class name.
C13_HighRiskShortCircuits ==
    (fnCall.name = "parseClass"
       /\ \E i \in 1..Len(fnCall.reports) : getRiskPriority(fnCall.reports[i].riskLevel) >= 3)
        => /\ ~fnRet.success
           /\ fnRet.data = Null
           /\ fnRet.error.code = "DANGEROUS_INPUT"
           /\ Range(fnCall.calls) \cap LaterStages = {}
           /\ fnCall.calls[Len(fnCall.calls)] = "detectDangerousPatterns"

\* w-[expression(alert(1))] is rejected as DangerousInput on a report of risk level critical.
C13_ExpressionRejectedAsCritical ==
    /\ fnCall.name = "parseClass"
    /\ fnCall.className = JSStr(Class_expression)
    /\ Len(fnCall.reports) = 1
    /\ fnCall.reports[1].riskLevel = "critical"
    /\ ~fnRet.success
    /\ fnRet.error.code = "DANGEROUS_INPUT"

(***************************************************************************)
(* Claims about the public entry points, checked under SpecApi and         *)
(* SpecApiLive.                                                            *)
(***************************************************************************)
EntryPoints == {"generateCSS", "parseClasses", "parseClass"}

\* C14: no exception crosses the pipeline boundary: for every input, wrong-typed
\* or malformed input included, a call of generateCSS, parseClasses or
\* parseClass does not throw.
C14_EntryPointsNeverThrow ==
    fnCall.name \in EntryPoints => "threw" \notin DOMAIN fnRet

\* What the parser's entry points do give: parseClass returns a ZyraResult and
\* parseClasses a ParseResult for every input of the model.
ParserEntryPointsReturn ==
    /\ fnCall.name = "parseClass" => IsZyraResult(fnRet.returned)
    /\ fnCall.name = "parseClasses" => DOMAIN fnRet.returned = {"parsed", "invalid"}

\* The inputs that validateGenerateInput rejects (generateCSS() itself has the default {}).
Malformed(input) == input # Undefined /\ ~validateGenerateInput(input, DateNow).success
SettledWithFailure ==
    /\ fnCall.name = "generateCSS"
    /\ "promise" \in DOMAIN fnRet
    /\ fnRet.promise = "fulfilled"
    /\ IsZyraResult(fnRet.value)
    /\ ~fnRet.value.success

\* C15: a generateCSS call whose input is malformed completes: the promise the
\* caller awaits is eventually settled with a failure result.
C15_MalformedInputSettlesWithFailure ==
    [](fnCall.name = "generateCSS" /\ Malformed(fnCall.input) => <>SettledWithFailure)

\* What happens instead: on malformed input the call throws or its promise
\* stays pending, and no call at all is settled with a ZyraResult.
MalformedInputNeverSettles ==
    /\ (fnCall.name = "generateCSS" /\ Malformed(fnCall.input))
          => \/ "threw" \in DOMAIN fnRet
             \/ fnRet.promise = "pending"
    /\ (fnCall.name = "generateCSS" /\ "promise" \in DOMAIN fnRet /\ fnRet.promise = "fulfilled")
          => ~IsZyraResult(fnRet.value)

\* The classes of a batch without the repetitions, in the order of their first occurrence.
RECURSIVE Distinct(_)
Distinct(classes) ==
    IF classes = <<>> THEN <<>>
    ELSE LET front == Distinct(SubSeq(classes, 1, Len(classes) - 1))
             last == classes[Len(classes)]
         IN  IF \E i \in 1..Len(front) : front[i] = last THEN front ELSE Append(front, last)

\* C16: in parseClasses, every class of the batch is handed to parseClass; one
\* that fails is recorded as exactly one entry {className, error, suggestions}
\* of the invalid list, and the others are parsed and reported all the same.
C16_BadTokenNeverAbortsBatch ==
    (fnCall.name = "parseClasses" /\ ClassesOf(fnCall.input) # Null)
        => LET tokens == Distinct(ClassesOf(fnCall.input).arr)
               parsed == fnRet.returned.parsed
               invalid == fnRet.returned.invalid
           IN  /\ Len(fnRet.results) = Len(tokens)
               /\ Len(parsed) + Len(invalid) = Len(tokens)
               /\ \A i \in 1..Len(tokens) :
                      IF fnRet.results[i].success
                      THEN \E j \in 1..Len(parsed) : parsed[j] = fnRet.results[i].data
                      ELSE /\ Cardinality({j \in 1..Len(invalid) :
                                              invalid[j].className = tokens[i]}) = 1
                           /\ \E j \in 1..Len(invalid) :
                                  invalid[j] = [className |-> tokens[i],
                                                error |-> fnRet.results[i].error,
                                                suggestions |-> fnRet.results[i].error.suggestions]

\* A batch whose first class is rejected as dangerous and whose second class is reported too.
C16_ClassAfterDangerousOneReported ==
    /\ fnCall.name = "parseClasses"
    /\ fnCall.input = JSArr(<<JSStr(Class_expression), JSStr(Class_p1)>>)
    /\ Len(fnRet.returned.invalid) = 2
    /\ fnRet.returned.invalid[1].error.code = "DANGEROUS_INPUT"
    /\ fnRet.returned.invalid[2].className = JSStr(Class_p1)

\* C17: a token of the bracket grammar with a mapped prefix and a valid single
\* value parses successfully: parseClass("p-[24px]") gives property padding,
\* value 24px and selector .p-\[24px\].
C17_ValidBracketTokenParses ==
    (fnCall.name = "parseClass" /\ fnCall.input = JSStr(Class_p24px))
        => /\ fnRet.returned.success
           /\ fnRet.returned.data.property = <<"p", "a", "d", "d", "i", "n", "g">>
           /\ fnRet.returned.data.value = <<"2", "4", "p", "x">>
           /\ fnRet.returned.data.selector = <<".", "p", "-", "\\", "[", "2", "4", "p", "x", "\\", "]">>

\* What parseClass gives for it: the failure "Unknown syntax pattern", although
\* parseBracketSyntax, had it been called, would have given the ParsedClass.
BracketBranchNeverTaken ==
    /\ (fnCall.name = "parseClass" /\ fnCall.input = JSStr(Class_p24px))
          => /\ ~fnRet.returned.success
             /\ fnRet.returned.error.code = "INVALID_CLASS_SYNTAX"
             /\ fnRet.returned.error.reason = "Unknown syntax pattern"
    /\ parseBracketSyntax(<<"p">>, <<"2", "4", "p", "x">>, DateNow).success
    /\ parseBracketSyntax(<<"p">>, <<"2", "4", "p", "x">>, DateNow).data.property = <<"p", "a", "d", "d", "i", "n", "g">>
    /\ parseBracketSyntax(<<"p">>, <<"2", "4", "p", "x">>, DateNow).data.value = <<"2", "4", "p", "x">>
    /\ parseBracketSyntax(<<"p">>, <<"2", "4", "p", "x">>, DateNow).data.selector = <<".", "p", "-", "\\", "[", "2", "4", "p", "x", "\\", "]">>

(***************************************************************************)
(* Claims about validateValue on colours, checked under SpecValue.         *)
(***************************************************************************)
InRange(color) ==
    IF color.fn = "rgb" THEN \A i \in 1..3 : color.parts[i] \in 0..255
    ELSE /\ color.parts[1] \in 0..360
         /\ color.parts[2] \in 0..100
         /\ color.parts[3] \in 0..100
ValidatedColor ==
    /\ fnCall.name = "validateValue"
    /\ fnCall.color.fn \in {"rgb", "hsl"}
    /\ ~fnCall.slow

\* C18: for a colour property, validateValue rejects an rgb() value with a
\* channel outside [0,255] and an hsl() value with the hue outside [0,360] or
\* the saturation or lightness outside [0,100]%, and accepts the values on
\* the limits, unchanged.
C18_OutOfRangeColorRejected ==
    ValidatedColor
        => IF InRange(fnCall.color)
           THEN fnRet.isValid /\ fnRet.value = fnCall.value.str
           ELSE ~fnRet.isValid

\* What validateValue does: every rgb() and hsl() value is accepted by the
\* isCSSColor shortcut, so that validateColorValue, which does check the
\* ranges, is not reached for it; no value of the model takes a branch that
\* is not modelled.
RangeCheckBypassed ==
    /\ ValidatedColor
          => /\ fnRet.isValid
             /\ fnRet.metadata = [type |-> "color", utilityValidated |-> TRUE]
             /\ validateColorValue(fnCall.value.str, getPropertyRules(fnCall.property)).isValid
                    <=> InRange(fnCall.color)
    /\ fnCall.name = "validateValue" => fnRet.metadata.type # "not-modelled"

(***************************************************************************)
(* Claims about shorthand values, checked under SpecShorthand.             *)
(***************************************************************************)
\* C19: the token m-[10px 20px] is accepted for margin, and its two lengths
\* are expanded to the four sides 10px, 20px, 10px, 20px.
C19_TwoLengthsExpandToFourSides ==
    (fnCall.name = "parseClass" /\ fnCall.input = JSStr(Class_m10px20px))
        => /\ fnRet.returned.success
           /\ fnRet.returned.data.property = <<"m", "a", "r", "g", "i", "n">>
           /\ fnRet.returned.data.values = <<<<"1", "0", "p", "x">>, <<"2", "0", "p", "x">>, <<"1", "0", "p", "x">>, <<"2", "0", "p", "x">>>>

\* What the parsers do with values of several lengths: parseClass fails on the
\* token; parseBracketSyntax, had it been reached, keeps a space-separated
\* value as one component; the parser that checks separators rejects it; only
\* parseShorthandValue, which no parser calls, expands two lengths to four sides.
SeveralLengths(value) ==
    /\ value \in ShorthandValues
    /\ Len(SpaceParts(value)) > 1
    /\ ~Includes(value, <<",">>)
    /\ ~containsCSSFunction(value)
ShorthandNeverExpanded ==
    /\ (fnCall.name = "parseClass" /\ fnCall.input = JSStr(Class_m10px20px))
          => /\ ~fnRet.returned.success
             /\ fnRet.returned.error.code = "INVALID_CLASS_SYNTAX"
    /\ (fnCall.name = "parseBracketSyntax" /\ SeveralLengths(fnCall.input.value)
          /\ fnCall.input.prefix = <<"m">>)
          => /\ fnRet.returned.success
             /\ fnRet.returned.data.values = <<fnCall.input.value>>
    /\ (fnCall.name = "parseCSSSyntax" /\ SeveralLengths(fnCall.input.value))
          => fnRet.returned = Null
    /\ (fnCall.name = "parseShorthandValue" /\ fnCall.input.expectedParts = 4
          /\ Len(SpaceParts(fnCall.input.value)) = 2)
          => fnRet.returned = <<SpaceParts(fnCall.input.value)[1], SpaceParts(fnCall.input.value)[2],
                                SpaceParts(fnCall.input.value)[1], SpaceParts(fnCall.input.value)[2]>>

(***************************************************************************)
(* Claims about groupIdenticalRules, checked under SpecGroup.              *)
(***************************************************************************)
\* The groups of the result that hold rule i of the call: those with its
\* declaration string and its selector.
GroupsHolding(i) ==
    {g \in 1..Len(fnRet) :
        /\ fnRet[g].declarationString = fnCall.rules[i].declarationString
        /\ fnCall.rules[i].selector \in Range(fnRet[g].selectors)}
SelectorsSharing(declarationString) ==
    {fnCall.rules[i].selector :
        i \in {j \in 1..Len(fnCall.rules) :
                  fnCall.rules[j].declarationString = declarationString}}

\* C20: grouping is exact: two rules with equal declaration strings are in
\* exactly one group, the same for both; rules with different declaration
\* strings are in different groups; the selectors of a group are those of the
\* rules that share its declaration string.
C20_GroupingExact ==
    fnCall.name = "groupIdenticalRules"
        => /\ \A i, j \in 1..Len(fnCall.rules) :
                 /\ Cardinality(GroupsHolding(i)) = 1
                 /\ fnCall.rules[i].declarationString = fnCall.rules[j].declarationString
                       => GroupsHolding(i) = GroupsHolding(j)
                 /\ fnCall.rules[i].declarationString # fnCall.rules[j].declarationString
                       => GroupsHolding(i) \cap GroupsHolding(j) = {}
           /\ \A g \in 1..Len(fnRet) :
                 /\ Range(fnRet[g].selectors) = SelectorsSharing(fnRet[g].declarationString)
                 /\ Range(fnRet[g].selectors) # {}
                 /\ \A h \in 1..Len(fnRet) :
                       fnRet[g].declarationString = fnRet[h].declarationString => g = h

\* Two class names with one declaration string, apart in the list, share the
\* first of two groups.
C20_SeparatedRulesShareGroup ==
    /\ fnCall.name = "groupIdenticalRules"
    /\ Len(fnCall.rules) = 3
    /\ fnCall.rules[1].declarationString = fnCall.rules[3].declarationString
    /\ fnCall.rules[1].declarationString # fnCall.rules[2].declarationString
    /\ fnCall.rules[1].selector # fnCall.rules[3].selector
    /\ Len(fnRet) = 2
    /\ fnRet[1].selectors = <<fnCall.rules[1].selector, fnCall.rules[3].selector>>

(***************************************************************************)
(* Claims about the safe regex operations, checked under SpecSafe.         *)
(***************************************************************************)
SafeOperations == {"syncSafeRegexTest", "test", "match", "replace", "exec"}
OverLengthInput ==
    /\ fnCall.name \in SafeOperations
    /\ IsString(fnCall.input)
    /\ Len(fnCall.input.str) > fnCall.maxLength
ErrorResult(returned) ==
    /\ returned # Null
    /\ "error" \in DOMAIN returned
    /\ returned.error # Null

\* C21: every safe regex operation given an input longer than maxLength
\* returns an error result and does not execute the regular expression on it.
C21_OverLengthInputNeverExecuted ==
    OverLengthInput => ErrorResult(fnRet.returned) /\ ~fnRet.executed

\* What the operations do: test, and syncSafeRegexTest without allowUnsafe,
\* refuse a long input; match, replace and exec run the regular expression on
\* every string whatever its length, and so does syncSafeRegexTest with
\* allowUnsafe.
OnlyTestChecksLength ==
    OverLengthInput
        => IF fnCall.name \in {"syncSafeRegexTest", "test"} /\ ~fnCall.allowUnsafe
           THEN /\ ~fnRet.executed
                /\ fnRet.returned.error = SafeError("Input too long")
                /\ ~fnRet.returned.result
           ELSE fnRet.executed

(***************************************************************************)
(* Claims about normalizeCSSValue, checked under SpecNormalize.            *)
(***************************************************************************)
\* C22: hex colour normalization is idempotent, and a 3-digit hex colour is
\* mapped to its lower-case 6-digit form.
C22_HexNormalizationIdempotent ==
    fnCall.name = "normalizeCSSValue"
        => /\ fnCall.again => fnRet = fnCall.value
           /\ (~fnCall.again /\ Len(Trim(fnCall.value)) = 4)
                 => \E digits \in {ToLowerCase(Trim(fnCall.value))} :
                       fnRet = <<"#", digits[2], digits[2], digits[3], digits[3],
                                 digits[4], digits[4]>>

\* #FFF has become #ffffff and stays so when normalized again.
C22_ShortHexExpandedOnce ==
    /\ fnCall.name = "normalizeCSSValue"
    /\ fnCall.again
    /\ fnCall.first = <<"#", "F", "F", "F">>
    /\ fnCall.value = <<"#", "f", "f", "f", "f", "f", "f">>
    /\ fnRet = <<"#", "f", "f", "f", "f", "f", "f">>

(***************************************************************************)
(* Claims about the sweep timer, checked under SpecSweep, where no entry   *)
(* is evicted for capacity, deleted or overwritten.                        *)
(***************************************************************************)
\* The entries of a tier that a step takes out of it.
Purged(tier) == (DOMAIN zcs[tier].cache) \ (DOMAIN zcs'[tier].cache)
\* A read of an entry that is cached and whose TTL has not elapsed returns it.
UnexpiredEntryRetrieved ==
    (/\ sysOp'.name \in {"cachedRule", "cachedGenerate"}
     /\ sysOp'.key \in DOMAIN zcs[sysOp'.tier].cache
     /\ SweepAge(zcs[sysOp'.tier].cache[sysOp'.key]) <= zcs[sysOp'.tier].ttl)
        => /\ sysOp'.key \in DOMAIN zcs'[sysOp'.tier].cache
           /\ zcs'[sysOp'.tier].cache[sysOp'.key].timestamp
                 = zcs[sysOp'.tier].cache[sysOp'.key].timestamp

\* C23: the periodic sweep purges only entries that are already expired: an
\* entry stays cached, and retrievable, until its TTL of one hour has elapsed.
C23_SweepPurgesOnlyExpired ==
    [][/\ \A tier \in Tiers : \A k \in Purged(tier) :
             SweepAge(zcs[tier].cache[k]) > zcs[tier].ttl
       /\ UnexpiredEntryRetrieved]_vars

\* C23 as the code has it: the sweep purges the entries older than thirty
\* minutes, expired or not; an entry leaves the cache only by a sweep that
\* finds it older than that or by a read after its TTL of one hour, and until
\* then a read returns it.
C23_SweepPurgesOverAge ==
    [][/\ \A tier \in Tiers : \A k \in Purged(tier) :
             \/ /\ sysOp'.name = "timer"
                /\ SweepAge(zcs[tier].cache[k]) > TTL_THIRTY_MINUTES
             \/ /\ sysOp'.name \in {"cachedRule", "cachedGenerate"}
                /\ SweepAge(zcs[tier].cache[k]) > zcs[tier].ttl
       /\ sysOp'.name = "timer"
             => \A tier \in Tiers : \A k \in DOMAIN zcs'[tier].cache :
                   SweepNow - zcs'[tier].cache[k].timestamp <= TTL_THIRTY_MINUTES
       /\ UnexpiredEntryRetrieved]_vars

\* The timer has purged an entry 45 minutes old, a quarter of an hour before
\* its TTL elapses.
C23_UnexpiredEntrySwept ==
    /\ sysOp.name = "timer"
    /\ \E e \in sysOp.swept : e.age = 3 * QuarterHour /\ ~e.expired

(***************************************************************************)
(* Claims about the generation cache key, checked under SpecGenKey.        *)
(***************************************************************************)
ClassSetOf(request) == Range(request.classArray)
DifferentRequests(r1, r2) ==
    \/ ClassSetOf(r1) # ClassSetOf(r2)
    \/ MKG_normalizeOptions(r1.options) # MKG_normalizeOptions(r2.options)

\* C24: two requests whose class sets differ, or whose normalized options
\* differ, never get the same generation cache key.
C24_DifferentRequestsDifferentKeys ==
    \A i, j \in 1..Len(RequestsMade) :
        DifferentRequests(fnCall.requests[i], fnCall.requests[j])
            => /\ fnRet[i].memoized # fnRet[j].memoized
               /\ fnRet[i].direct # fnRet[j].direct

\* What the keys tell apart: the key of index.js the classes joined with |
\* after the sort and the five normalized options; the key of cacheSystem.js
\* the joined classes and the options minify, groupSelectors and
\* includeComments alone.
JoinedClasses(request) == ArrayJoin(ArraySort(request.classArray), <<"|">>)
ThreeOptions(request) ==
    [f \in {"minify", "groupSelectors", "includeComments"} |->
        MKG_normalizeOptions(request.options)[f]]
KeysFollowJoinedText ==
    \A i, j \in 1..Len(RequestsMade) :
        /\ fnRet[i].memoized = fnRet[j].memoized
              <=> /\ JoinedClasses(fnCall.requests[i]) = JoinedClasses(fnCall.requests[j])
                  /\ MKG_normalizeOptions(fnCall.requests[i].options)
                        = MKG_normalizeOptions(fnCall.requests[j].options)
        /\ fnRet[i].direct = fnRet[j].direct
              <=> /\ JoinedClasses(fnCall.requests[i]) = JoinedClasses(fnCall.requests[j])
                  /\ ThreeOptions(fnCall.requests[i]) = ThreeOptions(fnCall.requests[j])


(***************************************************************************)
(* The engine.                                                             *)
(***************************************************************************)
GetCSSReturned == engine # Null /\ fnCall.name = "getCSS"

\* C25: the classes of a getCSS result, cached or not, are the classes the
\* engine holds when the call returns, whatever addClasses, removeClasses,
\* clear and importState calls came before.
C25_ResultDescribesCurrentClasses ==
    GetCSSReturned => fnRet.classes = engine.allClasses

\* A result served from the engine's cache for a non-empty class set.
C25_CachedResultForClasses ==
    /\ GetCSSReturned
    /\ fnRet.fromCache
    /\ fnRet.classes # <<>>

\* A getCSS call that returned generated CSS.
GeneratedCSSReturned ==
    /\ GetCSSReturned
    /\ fnRet.classes # <<>>
    /\ fnRet.error = Undefined

\* C26: the CSS that getCSS(generationOptions) returns was generated with the
\* engine's options overridden by the generationOptions of that call, never
\* with the options of an earlier call.
C26_CSSGeneratedWithCallOptions ==
    GeneratedCSSReturned => fnRet.css.options = Engine_finalOptions(engine, fnCall.input)

\* What holds instead: a result that getCSS generated in the call has the
\* call's options, and a result it took from cachedCSS is the cached one
\* whatever the call's options are.
FreshResultHasCallOptions ==
    GeneratedCSSReturned =>
        IF fnRet.fromCache
        THEN fnRet = [engine.cachedCSS EXCEPT !.fromCache = TRUE]
        ELSE fnRet.css.options = Engine_finalOptions(engine, fnCall.input)

\* C30: the engine's parse cache never holds more than maxClasses entries,
\* whatever addClasses, removeClasses, clear and getCSS calls came before.
C30_ParseCacheBounded ==
    engine # Null => Len(engine.parseCache) <= engine.maxClasses

\* getCSS has gone through the parsing loop for more classes than maxClasses.
C30_MoreClassesParsedThanLimit ==
    /\ GetCSSReturned
    /\ ~fnRet.fromCache
    /\ Len(fnRet.classes) > engine.maxClasses
    /\ Engine_getStats(engine).cacheSize <= engine.maxClasses

\* The reason: the loop stores a class only when parsed.length > 0, and
\* parseClasses returns a ParseResult, which has no length, so that the parse
\* cache stays empty.
ParseCacheStaysEmpty ==
    engine # Null => engine.parseCache = <<>>

(***************************************************************************)
(* The key memoizer: optimize() and the access-frequency table.            *)
(***************************************************************************)
RECURSIVE SumOfFrequencies(_, _)
SumOfFrequencies(frequency, accessKeys) ==
    IF accessKeys = {} THEN 0
    ELSE LET ak == CHOOSE k \in accessKeys : TRUE
         IN  frequency[ak] + SumOfFrequencies(frequency, accessKeys \ {ak})

MostFrequent(m) ==
    {ak \in DOMAIN m.accessFrequency :
        \A other \in DOMAIN m.accessFrequency :
            m.accessFrequency[other] <= m.accessFrequency[ak]}

OptimizeStep == keyOp'.name = "optimize"

\* C27: an optimize() pass keeps the memoized keys with the highest access
\* frequency, so a memoizer that holds a key still holds one after the pass,
\* whatever key requests and evictions came before.
C27_OptimizeKeepsMostFrequent ==
    [][OptimizeStep => MostFrequent(keygen) \subseteq DOMAIN keygen'.accessFrequency]_vars

\* What holds instead: the pass keeps the most frequent keys as long as no
\* request has evicted a key, that is while accessCounter is the sum of the
\* frequencies in the table.
OptimizeKeepsMostFrequentBeforeEvictions ==
    [][OptimizeStep
         /\ keygen.accessCounter
               = SumOfFrequencies(keygen.accessFrequency, DOMAIN keygen.accessFrequency)
       => MostFrequent(keygen) \subseteq DOMAIN keygen'.accessFrequency]_vars

\* The keys the four caches memoize, as pairs of cache type and key.
MemoizedKeys(m) ==
    UNION {{[type |-> type, key |-> k] : k \in OMapKeys(CacheOf(m, type))} : type \in KeyTypes}

\* C29: the access-frequency table holds exactly one counter, of value at
\* least 1, for each key that one of the four caches memoizes, and no counter
\* for any other key, whatever key requests, evictions, optimize and clear
\* calls came before.
C29_FrequencyTableMatchesCaches ==
    /\ DOMAIN keygen.accessFrequency
          = {AccessKey(mk.type, mk.key) : mk \in MemoizedKeys(keygen)}
    /\ Cardinality(DOMAIN keygen.accessFrequency) = Cardinality(MemoizedKeys(keygen))
    /\ \A ak \in DOMAIN keygen.accessFrequency : keygen.accessFrequency[ak] >= 1

\* A request has just evicted a key, and keys of two caches are memoized.
C29_TableAfterEviction ==
    /\ keyOp.evicted # {}
    /\ \E a, b \in MemoizedKeys(keygen) : a.type # b.type
    /\ C29_FrequencyTableMatchesCaches

(***************************************************************************)
(* Negative lengths.                                                       *)
(***************************************************************************)
\* validateValue was given a negative length, in time, for a property whose
\* rules have allowNegative = false.
NegativeLengthValidated ==
    /\ fnCall.name = "validateValue"
    /\ "length" \in DOMAIN fnCall
    /\ fnCall.length.signed
    /\ fnCall.length.sign = <<"-">>
    /\ fnCall.length.number > 0
    /\ ~getPropertyRules(fnCall.property).allowNegative

\* C28: validateValue rejects every negative length for a property whose
\* validation rules have allowNegative = false.
C28_NegativeLengthRejected ==
    NegativeLengthValidated => ~fnRet.isValid

\* What holds instead: such a length is accepted exactly when isCSSLength
\* accepts it, that is when its unit is one of the lower-case units of the
\* utility, and the check of the sign is reached only by the other lengths.
NegativeLengthAcceptedByUtility ==
    NegativeLengthValidated =>
        /\ fnRet.isValid = (~fnCall.slow /\ isCSSLength(fnCall.length.text))
        /\ fnRet.isValid => fnRet.metadata = [type |-> "length", utilityValidated |-> TRUE]

====
